---- MODULE Spec2Model ----
(***************************************************************************)
(* A model of the mrgb-curl HTTP client: the request-tabs store, the       *)
(* collections store's history, and the dual-mode request executor.        *)
(*                                                                         *)
(* JavaScript strings are TLA+ strings: Len is String.length, SubSeq is     *)
(* String.slice and \o is +.  An optional value is <<>> when absent        *)
(* (undefined / null) and <<v>> when present.  Timestamps (new Date()) are *)
(* not modelled: no code path reads them.                                  *)
(***************************************************************************)
EXTENDS Integers, Sequences, FiniteSets, TLC

VARIABLES
  tabs,          \* RequestTabsState.tabs
  activeTabId,   \* RequestTabsState.activeTabId
  nextTabId,     \* serial number of the next id the tabs store's generateId returns
  history,       \* CollectionsState.history
  nextGenId,     \* serial number of the next id the collections store's generateId returns
  callerResponse,\* the Response Record the caller of addToHistory holds, after the call
  proxyMode,     \* SettingsState.proxyMode
  sends,         \* the sends of useHttp's mutation: request, strategy, position
  network,       \* the network calls made so far, oldest first
  distinctSends, \* SpecCap: the distinct urls sent so far, in all and since history was cleared
  exchanges,     \* the POST requests the proxy endpoint received from other clients
  collections,   \* CollectionsState.collections
  requests,      \* CollectionsState.requests: the saved requests, by id
  handlers,      \* the calls of handleSendRequest: the tab each captured, and its send
  edits,         \* the number of operations made in the editor and the sidebar
  query,         \* the url and the params the query functions are applied to
  lastOp         \* the last call made on a store: its name and the case it took

vars == <<tabs, activeTabId, nextTabId, history, nextGenId, callerResponse,
          proxyMode, sends, network, distinctSends, exchanges, collections,
          requests, handlers, edits, query, lastOp>>

tabVars == <<tabs, activeTabId, nextTabId>>
historyVars == <<history, nextGenId, callerResponse>>
sendVars == <<proxyMode, sends, network>>
collectionVars == <<collections, requests>>

(***************************************************************************)
(* Bounds of the model.                                                    *)
(***************************************************************************)
MaxTabs == 2       \* addTab and openCollectionRequest stop appending at this length
MaxTabIds == 3     \* the tabs store's generateId is called at most this many times

None == <<>>
Some(v) == <<v>>

(***************************************************************************)
(* Values the user interface passes to the tabs store.                     *)
(***************************************************************************)
UrlA == "http://a/x"
UrlB == "http://b/y"
CRId1 == "c1:r1"
CRId2 == "c1:r2"

\* the data handleOpenCollectionRequest passes: name, url, method, headers, params, body
SavedData1 ==
  [name |-> "one", url |-> UrlA, method |-> "GET", headers |-> <<>>,
   params |-> <<>>, body |-> None]
SavedData2 ==
  [name |-> "two", url |-> UrlB, method |-> "POST",
   headers |-> <<[key |-> "Accept", value |-> "text/plain"]>>,
   params |-> <<>>, body |-> Some([type |-> "json", content |-> "{}"])]
\* the calls handleOpenCollectionRequest makes: <<collectionRequestId, data>>
OpenCalls == {CRId1, CRId2} \X {SavedData1, SavedData2}

\* the updates the editor and the sidebar pass to updateTab
TabUpdates == {[name |-> "Untitled"], [isDirty |-> FALSE], [isDirty |-> TRUE]}
TabNames == {"Untitled"}

\* a Response Record as setTabResponse receives it
SomeResponse ==
  [status |-> 200, statusText |-> "OK", headers |-> <<>>, body |-> "ok",
   responseTime |-> 1, size |-> 2]

(***************************************************************************)
(* The tabs store (useRequestTabsStore).                                   *)
(***************************************************************************)
createDefaultTab(id) ==
  [id |-> id, name |-> "New Request", url |-> "", method |-> "GET",
   headers |-> <<>>, params |-> <<>>, body |-> None, auth |-> [type |-> "none"],
   isDirty |-> FALSE, collectionRequestId |-> None, response |-> None]

\* { ...tab, ...updates }
Spread(tab, updates) ==
  [f \in DOMAIN tab |-> IF f \in DOMAIN updates THEN updates[f] ELSE tab[f]]

\* tabs.findIndex((t) => t.id === id), counted from 1; 0 when no tab matches
findIndex(ts, id) ==
  IF \E i \in 1..Len(ts) : ts[i].id = id
  THEN CHOOSE i \in 1..Len(ts) : ts[i].id = id /\ \A j \in 1..(i - 1) : ts[j].id # id
  ELSE 0

\* tabs.filter((t) => t.id !== id)
filterOut(ts, id) == SelectSeq(ts, LAMBDA t : t.id # id)

HasTab(ts, id) == \E i \in 1..Len(ts) : ts[i].id = id

addTab(ts, act, fresh) ==
  [tabs |-> Append(ts, createDefaultTab(fresh)), activeTabId |-> fresh]

\* removeTab without the last-tab branch
removeTabNoLastGuard(ts, act, id, fresh) ==
  LET tabIndex == findIndex(ts, id)
      newTabs == filterOut(ts, id)
      newActiveId ==
        IF act = id /\ newTabs # <<>>
        THEN IF tabIndex > 1 THEN newTabs[tabIndex - 1].id ELSE newTabs[1].id
        ELSE act
  IN [tabs |-> newTabs, activeTabId |-> newActiveId]

\* removeTab that resets the last tab's fields but keeps its id
removeTabResetInPlace(ts, act, id, fresh) ==
  LET tabIndex == findIndex(ts, id)
      newTabs == filterOut(ts, id)
      newActiveId ==
        IF act = id
        THEN IF tabIndex > 1 THEN newTabs[tabIndex - 1].id ELSE newTabs[1].id
        ELSE act
  IN IF Len(ts) = 1
     THEN [tabs |-> <<createDefaultTab(ts[1].id)>>, activeTabId |-> ts[1].id]
     ELSE [tabs |-> newTabs, activeTabId |-> newActiveId]

\* removeTab that makes the first tab active when the active tab is removed
removeTabActivateFirst(ts, act, id, fresh) ==
  LET newTabs == filterOut(ts, id)
  IN IF Len(ts) = 1
     THEN [tabs |-> <<createDefaultTab(fresh)>>, activeTabId |-> fresh]
     ELSE [tabs |-> newTabs, activeTabId |-> IF act = id THEN newTabs[1].id ELSE act]

removeTab(ts, act, id, fresh) ==
  LET tabIndex == findIndex(ts, id)
      newTabs == filterOut(ts, id)
      newActiveId ==
        IF act = id
        THEN IF tabIndex > 1 THEN newTabs[tabIndex - 1].id ELSE newTabs[1].id
        ELSE act
  IN IF Len(ts) = 1
     THEN [tabs |-> <<createDefaultTab(fresh)>>, activeTabId |-> fresh]
     ELSE [tabs |-> newTabs, activeTabId |-> newActiveId]

setActiveTab(ts, act, id) == [tabs |-> ts, activeTabId |-> id]

\* updateTab that looks at markDirty before updates.isDirty
updateTabMarkDirtyFirst(ts, act, id, updates, markDirty) ==
  LET upd(tab) ==
        LET nextIsDirty ==
              IF markDirty THEN TRUE
              ELSE IF "isDirty" \in DOMAIN updates THEN updates.isDirty ELSE tab.isDirty
        IN [Spread(tab, updates) EXCEPT !.isDirty = nextIsDirty]
  IN [tabs |-> [i \in 1..Len(ts) |-> IF ts[i].id = id THEN upd(ts[i]) ELSE ts[i]], activeTabId |-> act]

updateTab(ts, act, id, updates, markDirty) ==
  LET upd(tab) ==
        LET nextIsDirty ==
              IF "isDirty" \in DOMAIN updates THEN updates.isDirty
              ELSE IF markDirty THEN TRUE ELSE tab.isDirty
        IN [Spread(tab, updates) EXCEPT !.isDirty = nextIsDirty]
  IN [tabs |-> [i \in 1..Len(ts) |-> IF ts[i].id = id THEN upd(ts[i]) ELSE ts[i]], activeTabId |-> act]

\* renameTab that counts as an edit
renameTabMarkingDirty(ts, act, id, name) ==
  LET upd(tab) == [tab EXCEPT !.name = name, !.isDirty = TRUE]
  IN [tabs |-> [i \in 1..Len(ts) |-> IF ts[i].id = id THEN upd(ts[i]) ELSE ts[i]], activeTabId |-> act]

renameTab(ts, act, id, name) ==
  LET upd(tab) == [tab EXCEPT !.name = name]
  IN [tabs |-> [i \in 1..Len(ts) |-> IF ts[i].id = id THEN upd(ts[i]) ELSE ts[i]], activeTabId |-> act]

setTabResponse(ts, act, id, response) ==
  LET upd(tab) == [tab EXCEPT !.response = response]
  IN [tabs |-> [i \in 1..Len(ts) |-> IF ts[i].id = id THEN upd(ts[i]) ELSE ts[i]], activeTabId |-> act]

\* tabs.find((t) => t.collectionRequestId === collectionRequestId): its index, or 0
findByCollectionRequest(ts, k) ==
  IF \E i \in 1..Len(ts) : ts[i].collectionRequestId = Some(k)
  THEN CHOOSE i \in 1..Len(ts) :
         /\ ts[i].collectionRequestId = Some(k)
         /\ \A j \in 1..(i - 1) : ts[j].collectionRequestId # Some(k)
  ELSE 0

\* openCollectionRequest that spreads data over the link and the dirty flag
openCollectionRequestDataLast(ts, act, k, data, fresh) ==
  LET existing == findByCollectionRequest(ts, k)
      sync(tab) ==
        Spread([tab EXCEPT !.collectionRequestId = Some(k), !.isDirty = FALSE], data)
      newTab ==
        Spread([createDefaultTab(fresh)
                  EXCEPT !.collectionRequestId = Some(k), !.isDirty = FALSE], data)
  IN IF existing # 0
     THEN [tabs |-> [i \in 1..Len(ts) |->
                      IF ts[i].id = ts[existing].id THEN sync(ts[i]) ELSE ts[i]],
           activeTabId |-> ts[existing].id]
     ELSE [tabs |-> Append(ts, newTab), activeTabId |-> newTab.id]

\* openCollectionRequest without the search for an existing tab
openCollectionRequestAlwaysNew(ts, act, k, data, fresh) ==
  LET newTab ==
        [Spread(createDefaultTab(fresh), data)
           EXCEPT !.collectionRequestId = Some(k), !.isDirty = FALSE]
  IN [tabs |-> Append(ts, newTab), activeTabId |-> newTab.id]

openCollectionRequest(ts, act, k, data, fresh) ==
  LET existing == findByCollectionRequest(ts, k)
      sync(tab) ==
        [Spread(tab, data) EXCEPT !.collectionRequestId = Some(k), !.isDirty = FALSE]
      newTab ==
        [Spread(createDefaultTab(fresh), data)
           EXCEPT !.collectionRequestId = Some(k), !.isDirty = FALSE]
  IN IF existing # 0
     THEN [tabs |-> [i \in 1..Len(ts) |->
                      IF ts[i].id = ts[existing].id THEN sync(ts[i]) ELSE ts[i]],
           activeTabId |-> ts[existing].id]
     ELSE [tabs |-> Append(ts, newTab), activeTabId |-> newTab.id]

\* the ids a call may carry: the id of a tab, or 0, an id generateId never returns
TabIds == {0} \cup {tabs[i].id : i \in 1..Len(tabs)}

(***************************************************************************)
(* The calls the user interface makes on the tabs store.  lastOp records   *)
(* the call: whether its id (or collectionRequestId) named a tab, and       *)
(* whether there was a single tab, and whether the tab list changed.       *)
(***************************************************************************)
NoOp == [name |-> "init", found |-> FALSE, single |-> FALSE, changed |-> FALSE]

TabStep(name, found, result) ==
  /\ tabs' = result.tabs
  /\ activeTabId' = result.activeTabId
  /\ lastOp' = [name |-> name, found |-> found, single |-> (Len(tabs) = 1),
                changed |-> (result.tabs # tabs)]
  /\ UNCHANGED <<historyVars, sendVars, distinctSends, exchanges, collectionVars, handlers, edits, query>>

AddTab ==
  /\ Len(tabs) < MaxTabs
  /\ nextTabId <= MaxTabIds
  /\ TabStep("addTab", FALSE, addTab(tabs, activeTabId, nextTabId))
  /\ nextTabId' = nextTabId + 1

RemoveTab(id) ==
  /\ Len(tabs) = 1 => nextTabId <= MaxTabIds
  /\ TabStep("removeTab", HasTab(tabs, id), removeTab(tabs, activeTabId, id, nextTabId))
  /\ nextTabId' = IF Len(tabs) = 1 THEN nextTabId + 1 ELSE nextTabId

SetActiveTab(id) ==
  /\ TabStep("setActiveTab", HasTab(tabs, id), setActiveTab(tabs, activeTabId, id))
  /\ UNCHANGED nextTabId

UpdateTab(id, updates, markDirty) ==
  /\ TabStep("updateTab", HasTab(tabs, id),
             updateTab(tabs, activeTabId, id, updates, markDirty))
  /\ UNCHANGED nextTabId

RenameTab(id, name) ==
  /\ TabStep("renameTab", HasTab(tabs, id), renameTab(tabs, activeTabId, id, name))
  /\ UNCHANGED nextTabId

SetTabResponse(id, response) ==
  /\ TabStep("setTabResponse", HasTab(tabs, id),
             setTabResponse(tabs, activeTabId, id, response))
  /\ UNCHANGED nextTabId

OpenCollectionRequest(k, data) ==
  LET reuse == findByCollectionRequest(tabs, k) # 0
  IN /\ ~reuse => (Len(tabs) < MaxTabs /\ nextTabId <= MaxTabIds)
     /\ TabStep("openCollectionRequest", reuse,
                openCollectionRequest(tabs, activeTabId, k, data, nextTabId))
     /\ nextTabId' = IF reuse THEN nextTabId ELSE nextTabId + 1

\* no url has been given to the query functions
NoQuery == [pc |-> "none"]

\* the stores after construction
InitStores ==
  /\ tabs = <<createDefaultTab(1)>>
  /\ activeTabId = 1
  /\ nextTabId = 2
  /\ history = <<>>
  /\ nextGenId = 1
  /\ callerResponse = None
  /\ proxyMode = TRUE
  /\ sends = <<>>
  /\ network = <<>>
  /\ distinctSends = [total |-> 0, sinceClear |-> 0]
  /\ exchanges = <<>>
  /\ collections = <<>>
  /\ requests = <<>>
  /\ handlers = <<>>
  /\ edits = 0
  /\ lastOp = NoOp

Init == InitStores /\ query = NoQuery

Next ==
  \/ AddTab
  \/ \E id \in TabIds : RemoveTab(id)
  \/ \E id \in TabIds : SetActiveTab(id)
  \/ \E id \in TabIds, u \in TabUpdates, m \in BOOLEAN : UpdateTab(id, u, m)
  \/ \E id \in TabIds, n \in TabNames : RenameTab(id, n)
  \/ \E id \in TabIds : SetTabResponse(id, Some(SomeResponse))
  \/ OpenCollectionRequest(CRId1, SavedData2)

Spec == Init /\ [][Next]_vars

(***************************************************************************)
(* Updating tabs: tabs are added, closed and updated.                      *)
(***************************************************************************)
NextUpdate ==
  \/ AddTab
  \/ \E id \in TabIds : RemoveTab(id)
  \/ \E id \in TabIds, u \in TabUpdates, m \in BOOLEAN : UpdateTab(id, u, m)

SpecUpdate == Init /\ [][NextUpdate]_vars

(***************************************************************************)
(* Opening saved requests: the sidebar opens collection requests while     *)
(* tabs are added and closed.                                              *)
(***************************************************************************)
NextReuse ==
  \/ AddTab
  \/ \E id \in TabIds : RemoveTab(id)
  \/ \E c \in OpenCalls : OpenCollectionRequest(c[1], c[2])

SpecReuse == Init /\ [][NextReuse]_vars

(***************************************************************************)
(* Opening saved requests over edited tabs: data is a Partial of the tab   *)
(* record, so it may carry isDirty and a collectionRequestId of its own.   *)
(***************************************************************************)
DirtyData ==
  [name |-> "dirty", url |-> UrlA, isDirty |-> TRUE, collectionRequestId |-> Some(CRId2)]
OpenData == {SavedData1, SavedData2, DirtyData}

NextOpen ==
  \/ AddTab
  \/ \E id \in TabIds : RemoveTab(id)
  \/ \E id \in TabIds : UpdateTab(id, [url |-> UrlB], TRUE)
  \/ \E k \in {CRId1, CRId2}, data \in OpenData : OpenCollectionRequest(k, data)

SpecOpen == Init /\ [][NextOpen]_vars

(***************************************************************************)
(* Metadata of tabs: tabs are edited, renamed, activated and given a       *)
(* response.                                                               *)
(***************************************************************************)
NextMeta ==
  \/ AddTab
  \/ \E id \in TabIds : RemoveTab(id)
  \/ \E id \in TabIds : UpdateTab(id, [url |-> UrlB], TRUE)
  \/ \E id \in TabIds, n \in TabNames : RenameTab(id, n)
  \/ \E id \in TabIds : SetActiveTab(id)
  \/ \E id \in TabIds : SetTabResponse(id, Some(SomeResponse))

SpecMeta == Init /\ [][NextMeta]_vars

(***************************************************************************)
(* Closing tabs: up to MaxOpenTabs tabs are opened, activated and closed.  *)
(***************************************************************************)
MaxOpenTabs == 3   \* the tab bar holds at most this many tabs
MaxOpenIds == 4    \* the + button is pressed at most this many times, less one

\* the + button of the tab bar
NewTab ==
  /\ Len(tabs) < MaxOpenTabs
  /\ nextTabId <= MaxOpenIds
  /\ TabStep("addTab", FALSE, addTab(tabs, activeTabId, nextTabId))
  /\ nextTabId' = nextTabId + 1

NextRemove ==
  \/ NewTab
  \/ \E id \in TabIds : RemoveTab(id)
  \/ \E id \in TabIds : SetActiveTab(id)

SpecRemove == Init /\ [][NextRemove]_vars

(***************************************************************************)
(* Persistence of the tabs store: every change is written to storage as    *)
(* partialize gives it, and a reload of the page rehydrates the store from *)
(* what is stored.                                                         *)
(***************************************************************************)
\* activeTabId: null
NullId == -1

\* partialize: the tabs without their responses, and activeTabId
partializeTabs(ts, act) ==
  [tabs |-> [i \in 1..Len(ts) |-> [ts[i] EXCEPT !.response = None]],
   activeTabId |-> act]

\* a rehydration that keeps the stored activeTabId
onRehydrateStorageKeep(state) == state

\* the callback of onRehydrateStorage on the rehydrated state, which has a tab
onRehydrateStorage(state) ==
  IF state.activeTabId = NullId /\ Len(state.tabs) > 0
  THEN [state EXCEPT !.activeTabId = state.tabs[1].id]
  ELSE IF state.activeTabId # NullId /\ ~HasTab(state.tabs, state.activeTabId)
  THEN [state EXCEPT !.activeTabId = state.tabs[1].id]
  ELSE state

\* the store after the stored snapshot was merged over the initial state and
\* the callback ran
rehydrate(stored) == onRehydrateStorage(stored)

\* what storage can hold: the snapshot of the present state, or that snapshot
\* as a version that stored no active tab left it
StoredSnapshots ==
  {partializeTabs(tabs, activeTabId),
   [partializeTabs(tabs, activeTabId) EXCEPT !.activeTabId = NullId]}

\* the page is reloaded and the tabs store rehydrates from stored
Rehydrate(stored) ==
  /\ TabStep(IF stored.activeTabId = NullId THEN "rehydrateNull" ELSE "rehydrate",
             HasTab(stored.tabs, stored.activeTabId), rehydrate(stored))
  /\ UNCHANGED nextTabId

NextHydrate ==
  \/ AddTab
  \/ \E id \in TabIds : RemoveTab(id)
  \/ \E id \in TabIds : SetActiveTab(id)
  \/ \E id \in TabIds : SetTabResponse(id, Some(SomeResponse))
  \/ \E stored \in StoredSnapshots : Rehydrate(stored)

SpecHydrate == Init /\ [][NextHydrate]_vars

(***************************************************************************)
(* The collections store's history (useCollectionsStore).                  *)
(***************************************************************************)
MaxGenIds == 3     \* the collections store's generateId is called at most this many times
MaxAdds == 52      \* the number of distinct urls sent in SpecCap

HistoryCap == 50
maxBodySize == 10 * 1024
TruncationMarker == "\n... [truncated for storage]"

\* the characters of the modelled strings, in the order of their UTF-16 code units
CodeUnitOrder == "&/0123456789:=?abcdefghijklmnopqrstuvwxyz{}"
CodeUnit(c) == CHOOSE i \in 1..Len(CodeUnitOrder) : SubSeq(CodeUnitOrder, i, i) = c

\* a < b as Array.prototype.sort compares strings: by code units, a prefix first
RECURSIVE StringLess(_, _)
StringLess(a, b) ==
  IF b = "" THEN FALSE
  ELSE IF a = "" THEN TRUE
  ELSE LET x == CodeUnit(SubSeq(a, 1, 1))
           y == CodeUnit(SubSeq(b, 1, 1))
       IN IF x = y
          THEN StringLess(SubSeq(a, 2, Len(a)), SubSeq(b, 2, Len(b)))
          ELSE x < y

\* strings.sort()
RECURSIVE SortStrings(_)
SortStrings(strings) ==
  IF strings = <<>> THEN <<>>
  ELSE LET rest == SortStrings(Tail(strings))
           x == Head(strings)
           before == SelectSeq(rest, LAMBDA y : StringLess(y, x))
           after == SelectSeq(rest, LAMBDA y : ~StringLess(y, x))
       IN before \o <<x>> \o after

\* strings.join(sep)
RECURSIVE Join(_, _)
Join(strings, sep) ==
  IF strings = <<>> THEN ""
  ELSE IF Len(strings) = 1 THEN strings[1]
  ELSE strings[1] \o sep \o Join(Tail(strings), sep)

\* buildHistoryKey that joins the pairs in the order of the params
buildHistoryKeyUnsorted(request) ==
  LET kept == SelectSeq(request.params, LAMBDA p : p.enabled /\ p.key # "")
      pairs == [i \in 1..Len(kept) |-> kept[i].key \o "=" \o kept[i].value]
  IN request.url \o "::" \o Join(pairs, "&")

\* buildHistoryKey that takes the method into the key
buildHistoryKeyWithMethod(request) ==
  LET kept == SelectSeq(request.params, LAMBDA p : p.enabled /\ p.key # "")
      pairs == [i \in 1..Len(kept) |-> kept[i].key \o "=" \o kept[i].value]
  IN request.method \o " " \o request.url \o "::" \o Join(SortStrings(pairs), "&")

buildHistoryKey(request) ==
  LET kept == SelectSeq(request.params, LAMBDA p : p.enabled /\ p.key # "")
      pairs == [i \in 1..Len(kept) |-> kept[i].key \o "=" \o kept[i].value]
  IN request.url \o "::" \o Join(SortStrings(pairs), "&")

(***************************************************************************)
(* The values handleSendRequest passes to addToHistory.                    *)
(***************************************************************************)
RECURSIVE Repeat(_, _)
Repeat(c, n) ==
  IF n = 0 THEN ""
  ELSE LET half == Repeat(c, n \div 2)
       IN IF n % 2 = 0 THEN half \o half ELSE half \o half \o c

Param(k, v, e) == [key |-> k, value |-> v, enabled |-> e]

HistoryRequest(id, method, url, params) ==
  [id |-> id, name |-> "/x", method |-> method, url |-> url, headers |-> <<>>,
   params |-> params, body |-> None]

\* requests sent from tab 1 and from tab 2; Request2 and Request3 have one key,
\* and so have Request4 and Request5
Request1 == HistoryRequest(1, "GET", UrlA, <<>>)
Request2 == HistoryRequest(1, "GET", UrlA, <<Param("id", "1", TRUE)>>)
Request3 ==
  HistoryRequest(2, "POST", UrlA, <<Param("z", "9", FALSE), Param("id", "1", TRUE)>>)
Request4 ==
  HistoryRequest(1, "GET", UrlA, <<Param("b", "2", TRUE), Param("a", "1", TRUE)>>)
Request5 ==
  HistoryRequest(2, "GET", UrlA, <<Param("a", "1", TRUE), Param("b", "2", TRUE)>>)
HistoryRequests == {Request1, Request2, Request3, Request4, Request5}

ResponseWithBody(status, body) ==
  [status |-> status, statusText |-> "", headers |-> <<>>, body |-> body,
   responseTime |-> 1, size |-> Len(body)]

\* bodies of 2, of 10240 and of 10241 code units
ShortResponse == ResponseWithBody(200, "ok")
FullResponse == ResponseWithBody(200, Repeat("x", 10240))
LongResponse == ResponseWithBody(404, Repeat("y", 10241))

HistoryEntry(r, p) == [requestId |-> r.id, request |-> r, response |-> p]

HistoryEntries ==
  { HistoryEntry(Request1, ShortResponse), HistoryEntry(Request1, FullResponse),
    HistoryEntry(Request2, ShortResponse), HistoryEntry(Request2, LongResponse),
    HistoryEntry(Request3, LongResponse),
    HistoryEntry(Request4, ShortResponse),
    HistoryEntry(Request5, LongResponse), HistoryEntry(Request5, FullResponse) }

\* buildHistoryKey, tabulated for the requests of the model
HistoryKeys == [r \in HistoryRequests |-> buildHistoryKey(r)]
historyKey(request) ==
  IF request \in HistoryRequests THEN HistoryKeys[request] ELSE buildHistoryKey(request)

\* truncateResponseBody that returns the response as it is
truncateResponseBodyNever(response) == response

truncateResponseBody(response) ==
  IF response.body # "" /\ Len(response.body) > maxBodySize
  THEN [response EXCEPT
          !.body = SubSeq(response.body, 1, maxBodySize) \o TruncationMarker]
  ELSE response

\* array.slice(0, n)
Slice(seq, n) == SubSeq(seq, 1, IF Len(seq) < n THEN Len(seq) ELSE n)

\* currentHistory.findIndex((item) => buildHistoryKey(item.request) === nextKey),
\* counted from 1; 0 when no entry matches
findHistoryIndex(h, nextKey) ==
  LET keys == [i \in 1..Len(h) |-> historyKey(h[i].request)]
      matches == {i \in 1..Len(h) : keys[i] = nextKey}
  IN IF matches = {} THEN 0
     ELSE CHOOSE i \in matches : \A j \in matches : i <= j

\* seq.filter((_, index) => index !== i)
WithoutIndex(seq, i) == SubSeq(seq, 1, i - 1) \o SubSeq(seq, i + 1, Len(seq))

\* addToHistory that never looks for an existing entry
addToHistoryAlwaysPrepend(h, entry, fresh) ==
  Slice(<<[id |-> fresh, requestId |-> entry.requestId, request |-> entry.request,
           response |-> truncateResponseBody(entry.response)]>> \o h, HistoryCap)

\* addToHistory that updates an existing entry where it is
addToHistoryInPlace(h, entry, fresh) ==
  LET truncatedResponse == truncateResponseBody(entry.response)
      existingIndex == findHistoryIndex(h, historyKey(entry.request))
  IN IF existingIndex # 0
     THEN [h EXCEPT ![existingIndex] =
             [Spread(h[existingIndex], entry) EXCEPT !.response = truncatedResponse]]
     ELSE Slice(<<[id |-> fresh, requestId |-> entry.requestId,
                   request |-> entry.request, response |-> truncatedResponse]>> \o h,
                HistoryCap)

\* addToHistory without slice(0, 50)
addToHistoryNoCap(h, entry, fresh) ==
  LET truncatedResponse == truncateResponseBody(entry.response)
      existingIndex == findHistoryIndex(h, historyKey(entry.request))
  IN IF existingIndex # 0
     THEN <<[Spread(h[existingIndex], entry) EXCEPT !.response = truncatedResponse]>>
            \o WithoutIndex(h, existingIndex)
     ELSE <<[id |-> fresh, requestId |-> entry.requestId,
             request |-> entry.request, response |-> truncatedResponse]>> \o h

\* addToHistory that leaves an entry with the same key as it is
addToHistoryKeepFirst(h, entry, fresh) ==
  LET existingIndex == findHistoryIndex(h, historyKey(entry.request))
  IN IF existingIndex # 0 THEN h
     ELSE Slice(<<[id |-> fresh, requestId |-> entry.requestId,
                   request |-> entry.request,
                   response |-> truncateResponseBody(entry.response)]>> \o h,
                HistoryCap)

addToHistory(h, entry, fresh) ==
  LET truncatedResponse == truncateResponseBody(entry.response)
      nextKey == historyKey(entry.request)
      existingIndex == findHistoryIndex(h, nextKey)
      updatedEntry ==
        [Spread(h[existingIndex], entry) EXCEPT !.response = truncatedResponse]
      newEntry ==
        [id |-> fresh, requestId |-> entry.requestId, request |-> entry.request,
         response |-> truncatedResponse]
  IN IF existingIndex # 0
     THEN Slice(<<updatedEntry>> \o WithoutIndex(h, existingIndex), HistoryCap)
     ELSE Slice(<<newEntry>> \o h, HistoryCap)

clearHistory(h) == <<>>

HistoryStep(name, index, result) ==
  /\ history' = result
  /\ lastOp' = [name |-> name, found |-> (index # 0), single |-> (Len(history) = 1),
                changed |-> (result # history), index |-> index]
  /\ UNCHANGED <<tabVars, sendVars, exchanges, collectionVars, handlers, edits, query>>

AddToHistory(entry) ==
  LET existingIndex == findHistoryIndex(history, historyKey(entry.request))
  IN /\ HistoryStep("addToHistory", existingIndex,
                    addToHistory(history, entry, nextGenId))
     /\ nextGenId' = IF existingIndex = 0 THEN nextGenId + 1 ELSE nextGenId
     /\ callerResponse' = Some(entry.response)

ClearHistory ==
  /\ HistoryStep("clearHistory", 0, clearHistory(history))
  /\ UNCHANGED <<nextGenId, callerResponse>>

\* a send of one of the model's requests is recorded
RecordSend(entry) ==
  /\ findHistoryIndex(history, historyKey(entry.request)) = 0 => nextGenId <= MaxGenIds
  /\ AddToHistory(entry)
  /\ UNCHANGED distinctSends

ClearAll ==
  /\ ClearHistory
  /\ UNCHANGED distinctSends

NextHistory ==
  \/ \E e \in HistoryEntries : RecordSend(e)
  \/ ClearAll

SpecHistory == Init /\ [][NextHistory]_vars

(***************************************************************************)
(* Two sends, recorded one after the other: query holds the requests, the  *)
(* first sent from tab 1 and the second from tab 2.                        *)
(***************************************************************************)
MaxKeyParams == 3     \* the number of params of a request

KeyRows == {Param("a", "1", TRUE), Param("b", "1", TRUE), Param("c", "1", FALSE)}

\* the lists of at most n of these rows
RECURSIVE KeyLists(_)
KeyLists(n) ==
  IF n = 0 THEN {<<>>}
  ELSE LET shorter == KeyLists(n - 1)
       IN shorter \cup {Append(rows, row) : rows \in shorter, row \in KeyRows}

\* the second request as a GET without headers and body, and as a POST with both
Variants(url, params) ==
  {HistoryRequest(2, "GET", url, params),
   [HistoryRequest(2, "POST", url, params)
      EXCEPT !.headers = <<[key |-> "Accept", value |-> "text/plain"]>>,
             !.body = Some([type |-> "json", content |-> "{}"])]}

InitPair ==
  /\ InitStores
  /\ query \in {[pc |-> "pair", first |-> HistoryRequest(1, "GET", UrlA, p1),
                  second |-> r2] :
                  p1 \in KeyLists(MaxKeyParams),
                  r2 \in UNION {Variants(url, p2) : url \in {UrlA, UrlB},
                                                   p2 \in KeyLists(MaxKeyParams)}}

\* the first send succeeded: its entry is added
RecordFirst ==
  /\ history = <<>>
  /\ RecordSend(HistoryEntry(query.first, ShortResponse))

\* the second send succeeded after the first
RecordSecond ==
  /\ Len(history) = 1 /\ ~lastOp.found
  /\ RecordSend(HistoryEntry(query.second, LongResponse))

NextPair ==
  \/ RecordFirst
  \/ RecordSecond

SpecPair == InitPair /\ [][NextPair]_vars

(***************************************************************************)
(* Sends to urls that are all different: the n-th goes to http://h/n.      *)
(***************************************************************************)
UrlN(n) == "http://h/" \o ToString(n)

RecordDistinctSend ==
  /\ distinctSends.total < MaxAdds
  /\ AddToHistory(HistoryEntry(HistoryRequest(1, "GET", UrlN(distinctSends.total + 1), <<>>),
                               ShortResponse))
  /\ distinctSends' = [total |-> distinctSends.total + 1,
                       sinceClear |-> distinctSends.sinceClear + 1]

ClearBetweenSends ==
  /\ ClearHistory
  /\ distinctSends' = [distinctSends EXCEPT !.sinceClear = 0]

NextCap ==
  \/ RecordDistinctSend
  \/ ClearBetweenSends

SpecCap == Init /\ [][NextCap]_vars

(***************************************************************************)
(* The request executor (useHttp) and the proxy endpoint (/api/proxy).     *)
(* A send is one call of the mutation function; network lists the fetches  *)
(* made, each with the send it belongs to and where it goes.               *)
(***************************************************************************)
MaxSends == 2      \* the number of sends issued

HttpMethods == {"GET", "POST", "PUT", "PATCH", "DELETE", "HEAD", "OPTIONS"}
BodyMethods == {"POST", "PUT", "PATCH"}

Letters == "abcdefghijklmnopqrstuvwxyz"
IsLetter(c) == \E k \in 1..Len(Letters) : SubSeq(Letters, k, k) = c

\* the index of the first ":" of s, or 0
SchemeEnd(s) ==
  LET colons == {i \in 1..Len(s) : SubSeq(s, i, i) = ":"}
  IN IF colons = {} THEN 0 ELSE CHOOSE i \in colons : \A j \in colons : i <= j

\* s without its leading "/" characters
RECURSIVE DropSlashes(_)
DropSlashes(s) ==
  IF s # "" /\ SubSeq(s, 1, 1) = "/" THEN DropSlashes(SubSeq(s, 2, Len(s))) ELSE s

\* z.string().url(): new URL(s) succeeds, that is s has a scheme and, for http
\* and https, a host
IsUrl(s) ==
  LET i == SchemeEnd(s)
  IN /\ i > 1
     /\ \A j \in 1..(i - 1) : IsLetter(SubSeq(s, j, j))
     /\ SubSeq(s, 1, i - 1) \in {"http", "https"} =>
          DropSlashes(SubSeq(s, i + 1, Len(s))) # ""

\* RequestExecutionSchema.parse(request) returns the request rather than throwing
ParsesAsRequest(request) == request.method \in HttpMethods /\ IsUrl(request.url)

ValidationError == [kind |-> "ZodError"]
Pending == [kind |-> "pending"]

\* fetch('/api/proxy', { method: 'POST', headers, body: JSON.stringify(validatedRequest) })
ProxyCall(i, request) ==
  [send |-> i, to |-> "proxy", from |-> "browser", method |-> "POST",
   url |-> "/api/proxy", body |-> Some(request)]

\* fetch(validatedRequest.url, fetchOptions) in executeDirectRequest
DirectCall(i, request) ==
  [send |-> i, to |-> "target", from |-> "browser", method |-> request.method,
   url |-> request.url,
   body |-> IF request.body # None /\ request.body[1] # "" /\ request.method \in BodyMethods
            THEN request.body ELSE None]

\* executeProxyRequest that posts the request to the proxy without parsing it
executeProxyRequestUnchecked(i, request) ==
  [pc |-> "proxy", outcome |-> Pending, calls |-> <<ProxyCall(i, request)>>]

\* executeProxyRequest up to its first await: the parse and the call of the proxy
executeProxyRequest(i, request) ==
  IF ParsesAsRequest(request)
  THEN [pc |-> "proxy", outcome |-> Pending, calls |-> <<ProxyCall(i, request)>>]
  ELSE [pc |-> "done", outcome |-> ValidationError, calls |-> <<>>]

\* executeDirectRequest up to its first await: the parse and the fetch of the target
executeDirectRequest(i, request) ==
  IF ParsesAsRequest(request)
  THEN [pc |-> "target", outcome |-> Pending, calls |-> <<DirectCall(i, request)>>]
  ELSE [pc |-> "done", outcome |-> ValidationError, calls |-> <<>>]

\* an executor that throws for a status of 400 or more
ResponseRecordRejectingErrors(status, body) ==
  IF status >= 400 THEN [kind |-> "error", message |-> "Request failed"]
  ELSE [kind |-> "response",
        response |-> [status |-> status, statusText |-> "", headers |-> <<>>,
                      body |-> body, responseTime |-> 1, size |-> Len(body)]]

\* the Response Record both strategies build
ResponseRecord(status, body) ==
  [kind |-> "response",
   response |-> [status |-> status, statusText |-> "", headers |-> <<>>,
                 body |-> body, responseTime |-> 1, size |-> Len(body)]]

ThrownError(message) == [kind |-> "error", message |-> message]

(***************************************************************************)
(* The proxy endpoint's POST handler.  A JSON value is a record of its      *)
(* typeof and its text: the handler only tests url for truthiness and for  *)
(* being a string.                                                         *)
(***************************************************************************)
JsonString(text) == [type |-> "string", value |-> text]
JsonNumber(text) == [type |-> "number", value |-> text]
JsonUndefined == [type |-> "undefined", value |-> ""]

\* !value
Falsy(json) ==
  \/ json.type = "undefined"
  \/ json.type = "string" /\ json.value = ""
  \/ json.type = "number" /\ json.value = "0"

\* the url check that lets every string through
RejectsUrlUnlessString(url) == url.type # "string"

\* !url || typeof url !== 'string'
RejectsUrl(url) == Falsy(url) \/ url.type # "string"

\* JSON.stringify(validatedRequest), as request.json() reads it in the handler
RequestJson(request) ==
  [parses |-> TRUE, method |-> request.method, url |-> JsonString(request.url),
   headers |-> request.headers, body |-> request.body]

\* a handler that attaches every body it is given
AttachesBodyAlways(method, body) == body # None /\ body[1] # ""

\* reqBody && ['POST', 'PUT', 'PATCH'].includes(method)
AttachesBody(method, body) == body # None /\ body[1] # "" /\ method \in BodyMethods

UpperLetters == "ABCDEFGHIJKLMNOPQRSTUVWXYZ"

\* the lower-case letter of each upper-case letter
LowerOf ==
  [c \in {SubSeq(UpperLetters, i, i) : i \in 1..Len(UpperLetters)} |->
     LET i == CHOOSE k \in 1..Len(UpperLetters) : SubSeq(UpperLetters, k, k) = c
     IN SubSeq(Letters, i, i)]

\* name.toLowerCase(), as Headers stores the name of a header
RECURSIVE toLowerCase(_)
toLowerCase(name) ==
  IF name = "" THEN ""
  ELSE (IF SubSeq(name, 1, 1) \in DOMAIN LowerOf THEN LowerOf[SubSeq(name, 1, 1)]
        ELSE SubSeq(name, 1, 1))
         \o toLowerCase(SubSeq(name, 2, Len(name)))

\* { ...defaults, ...entries }: an entry replaces the value of the default of
\* exactly its key, and is added after the defaults otherwise
ObjectSpread(defaults, entries) ==
  LET value(d) == IF \E j \in 1..Len(entries) : entries[j].key = d.key
                  THEN entries[CHOOSE j \in 1..Len(entries) : entries[j].key = d.key].value
                  ELSE d.value
  IN [i \in 1..Len(defaults) |-> [key |-> defaults[i].key, value |-> value(defaults[i])]]
       \o SelectSeq(entries, LAMBDA h :
                      \A i \in 1..Len(defaults) : defaults[i].key # h.key)

\* the headers of a Headers object to which the entries of init were appended under
\* names: one header for each name, in the order the names came first, with the
\* values appended under the name joined by ", "
Appended(init, names) ==
  LET firsts == {i \in 1..Len(init) : \A j \in 1..(i - 1) : names[j] # names[i]}
      position(n) == CHOOSE i \in firsts : Cardinality({j \in firsts : j < i}) = n - 1
      under(name) == SelectSeq([i \in 1..Len(init) |-> <<names[i], init[i].value>>],
                               LAMBDA pair : pair[1] = name)
      values(name) == [n \in 1..Len(under(name)) |-> under(name)[n][2]]
  IN [n \in 1..Cardinality(firsts) |->
        [key |-> names[position(n)], value |-> Join(values(names[position(n)]), ", ")]]

\* new Headers(init): each entry is appended under its name in lower case
Headers(init) ==
  CHOOSE headers \in
    {Appended(entries, names) :
       <<entries, names>> \in {<<init, [i \in 1..Len(init) |-> toLowerCase(init[i].key)]>>}} :
    TRUE

\* new Headers({ 'Content-Type': 'application/json', ...reqHeaders })
fetchHeaders(reqHeaders) ==
  Headers(ObjectSpread(<<[key |-> "Content-Type", value |-> "application/json"]>>,
                       reqHeaders))

\* fetch(url, fetchOptions) in the handler, for the i-th request it received
OutboundCall(i, json) ==
  [send |-> i, to |-> "target", from |-> "proxy", headers |-> fetchHeaders(json.headers),
   method |-> IF json.method = "" THEN "GET" ELSE json.method,
   url |-> json.url.value,
   body |-> IF AttachesBody(json.method, json.body) THEN json.body ELSE None]

\* new Response(JSON.stringify(...), { status })
HttpReply(status, body) == [status |-> status, body |-> body]

\* the handler's answer to a url it rejects
InvalidUrlReply == HttpReply(400, [error |-> "Invalid URL"])

\* the handler answering with the status the target answered with
EnvelopeReplyWithTargetStatus(status, statusText, text) ==
  HttpReply(status,
            [status |-> status, statusText |-> statusText, headers |-> <<>>,
             body |-> text, responseTime |-> 1, size |-> Len(text)])

\* the handler's answer once the outbound fetch completed
EnvelopeReply(status, statusText, text) ==
  HttpReply(200,
            [status |-> status, statusText |-> statusText, headers |-> <<>>,
             body |-> text, responseTime |-> 1, size |-> Len(text)])

\* the handler's answer to an exception
ErrorReply(message) == HttpReply(500, [error |-> message])

\* the handler up to its first await after request.json(): the answer it gives at
\* once, or the outbound fetch it starts
POST(i, json) ==
  IF ~json.parses
  THEN [pc |-> "done", reply |-> Some(ErrorReply("Unexpected token")), calls |-> <<>>]
  ELSE IF RejectsUrl(json.url)
  THEN [pc |-> "done", reply |-> Some(InvalidUrlReply), calls |-> <<>>]
  ELSE [pc |-> "fetching", reply |-> None, calls |-> <<OutboundCall(i, json)>>]

\* response.ok
Ok(reply) == reply.status \in 200..299

\* a reply whose body is not JSON, as the server in front of the handler gives
HtmlReply(status, text) == HttpReply(status, [html |-> text])

\* response.json() of the reply rejects
Unparsable(reply) == "html" \in DOMAIN reply.body

\* response.json().catch(() => ({ error: 'Unknown error' }))
ErrorJson(reply) == IF Unparsable(reply) THEN [error |-> "Unknown error"] ELSE reply.body

\* error.error || `Request failed with status ${response.status}`
ErrorMessage(reply) ==
  LET error == ErrorJson(reply)
  IN IF "error" \in DOMAIN error /\ error.error # ""
     THEN error.error
     ELSE "Request failed with status " \o ToString(reply.status)

\* executeProxyRequest throwing the same message for every failed reply
proxyOutcomeGenericOnly(reply) ==
  IF ~Ok(reply) THEN ThrownError("Unknown error")
  ELSE IF Unparsable(reply) THEN ThrownError("Unexpected token")
  ELSE [kind |-> "response",
        response |-> [status |-> reply.body.status, statusText |-> reply.body.statusText,
                      headers |-> reply.body.headers, body |-> reply.body.body,
                      responseTime |-> reply.body.responseTime,
                      size |-> reply.body.size]]

\* executeProxyRequest after the fetch of /api/proxy resolved
proxyOutcome(reply) ==
  IF ~Ok(reply) THEN ThrownError(ErrorMessage(reply))
  ELSE IF Unparsable(reply) THEN ThrownError("Unexpected token")
  ELSE [kind |-> "response",
        response |-> [status |-> reply.body.status, statusText |-> reply.body.statusText,
                      headers |-> reply.body.headers, body |-> reply.body.body,
                      responseTime |-> reply.body.responseTime,
                      size |-> reply.body.size]]

(***************************************************************************)
(* Sends of the executor.                                                  *)
(***************************************************************************)
SendRequests ==
  [method : {"GET", "POST", "FOO"}, url : {UrlA, "a/x"}, headers : {<<>>},
   body : {None, Some("{}")}]
TargetStatuses == {200, 404, 500}

SendStep(newSends, calls) ==
  /\ sends' = newSends
  /\ network' = network \o calls
  /\ UNCHANGED <<tabVars, historyVars, proxyMode, distinctSends, exchanges,
                 collectionVars, handlers, edits, query, lastOp>>

\* setProxyMode(b)
SetProxyMode(b) ==
  /\ proxyMode' = b
  /\ UNCHANGED <<tabVars, historyVars, sends, network, distinctSends, exchanges,
                 collectionVars, handlers, edits, query, lastOp>>

\* the mutation function that posts every request to the proxy
mutationFnAlwaysProxy(mode, i, request) == executeProxyRequest(i, request)

\* mutationFn: proxyMode ? executeProxyRequest(request) : executeDirectRequest(request)
mutationFn(mode, i, request) ==
  IF mode THEN executeProxyRequest(i, request) ELSE executeDirectRequest(i, request)

\* the send mutateAsync(request) starts: the mutation function up to its first await
StartedSend(i, request) ==
  LET started == mutationFn(proxyMode, i, request)
  IN [send |-> [request |-> request, proxy |-> proxyMode, pc |-> started.pc,
                outcome |-> started.outcome, reply |-> None, targetStatus |-> None],
      calls |-> started.calls]

\* sendRequest.mutateAsync(request)
Send(request) ==
  LET started == StartedSend(Len(sends) + 1, request)
  IN /\ Len(sends) < MaxSends
     /\ SendStep(Append(sends, started.send), started.calls)

\* the proxy's POST handler, up to its outbound fetch
ProxyReceives(i) ==
  /\ sends[i].pc = "proxy"
  /\ \E handled \in {POST(i, RequestJson(sends[i].request))} :
        IF handled.pc = "done"
        THEN SendStep([sends EXCEPT ![i].pc = "done", ![i].reply = handled.reply,
                                    ![i].outcome = proxyOutcome(handled.reply[1])],
                      <<>>)
        ELSE SendStep([sends EXCEPT ![i].pc = "target"], handled.calls)

\* a send after its target answered: the proxy returns the envelope, or the direct
\* fetch resolves; the executor builds the Response Record
answered(send, status) ==
  IF send.proxy
  THEN LET reply == EnvelopeReply(status, "", "ok")
       IN [send EXCEPT !.pc = "done", !.reply = Some(reply),
                       !.targetStatus = Some(status), !.outcome = proxyOutcome(reply)]
  ELSE [send EXCEPT !.pc = "done", !.targetStatus = Some(status),
                    !.outcome = ResponseRecord(status, "ok")]

\* a direct send that builds a record from a fetch that threw
directFailureAsRecord(message) == ResponseRecord(0, message)

\* the catch block of executeDirectRequest: throw new Error(error.message)
directFailure(message) == ThrownError(message)

\* a send after the fetch of its target threw with message: the proxy returns 500 with the
\* message, or the direct fetch rejects; the executor throws an Error with the message
unreachable(send, message) ==
  IF send.proxy
  THEN LET reply == ErrorReply(message)
       IN [send EXCEPT !.pc = "done", !.reply = Some(reply),
                       !.outcome = proxyOutcome(reply)]
  ELSE [send EXCEPT !.pc = "done", !.outcome = directFailure(message)]

TargetAnswers(i, status) ==
  /\ sends[i].pc = "target"
  /\ SendStep([sends EXCEPT ![i] = answered(sends[i], status)], <<>>)

\* the fetch of the target of send i throws an Error with message
TargetThrows(i, message) ==
  /\ sends[i].pc = "target"
  /\ SendStep([sends EXCEPT ![i] = unreachable(sends[i], message)], <<>>)

TargetUnreachable(i) == TargetThrows(i, "fetch failed")

NextSend ==
  \/ \E b \in BOOLEAN : SetProxyMode(b)
  \/ \E r \in SendRequests : Send(r)
  \/ \E i \in 1..Len(sends) : ProxyReceives(i)
  \/ \E i \in 1..Len(sends), st \in TargetStatuses : TargetAnswers(i, st)
  \/ \E i \in 1..Len(sends) : TargetUnreachable(i)

SpecSend == Init /\ [][NextSend]_vars

(***************************************************************************)
(* Sends of every method, with and without a body.                         *)
(***************************************************************************)
\* every method with a body, and GET and the methods that take a body without one
BodyRequests ==
  [method : HttpMethods, url : {UrlA}, headers : {<<>>}, body : {Some("{}")}]
    \cup [method : BodyMethods \cup {"GET"}, url : {UrlA}, headers : {<<>>}, body : {None}]

NextBody ==
  \/ \E b \in BOOLEAN : SetProxyMode(b)
  \/ \E r \in BodyRequests : Send(r)
  \/ \E i \in 1..Len(sends) : ProxyReceives(i)
  \/ \E i \in 1..Len(sends) : TargetAnswers(i, 200)

SpecBody == Init /\ [][NextBody]_vars

(***************************************************************************)
(* Failing sends: the target is unreachable, or the fetch of /api/proxy is *)
(* answered by the server in front of the handler.                         *)
(***************************************************************************)
\* the messages of the errors fetch throws, in the server and in the browser
FailureMessages == {"fetch failed", "Failed to fetch"}

\* replies to the fetch of /api/proxy that the handler did not write
ServerReplies == {HtmlReply(502, "<html>Bad Gateway</html>"),
                  HttpReply(404, [message |-> "Not Found"])}

\* the fetch of /api/proxy of send i resolves with a reply of the server
ProxyUnavailable(i, reply) ==
  /\ sends[i].pc = "proxy"
  /\ SendStep([sends EXCEPT ![i].pc = "done", ![i].reply = Some(reply),
                            ![i].outcome = proxyOutcome(reply)], <<>>)

NextFailure ==
  \/ \E b \in BOOLEAN : SetProxyMode(b)
  \/ \E r \in SendRequests : Send(r)
  \/ \E i \in 1..Len(sends) : ProxyReceives(i)
  \/ \E i \in 1..Len(sends) : TargetAnswers(i, 200)
  \/ \E i \in 1..Len(sends), m \in FailureMessages : TargetThrows(i, m)
  \/ \E i \in 1..Len(sends), reply \in ServerReplies : ProxyUnavailable(i, reply)

SpecFailure == Init /\ [][NextFailure]_vars

(***************************************************************************)
(* The proxy endpoint on its own: any client may POST any body to it.      *)
(***************************************************************************)
MaxPosts == 2      \* the number of POST requests the proxy endpoint receives

\* a body request.json() cannot parse
MalformedBody ==
  [parses |-> FALSE, method |-> "", url |-> JsonUndefined, headers |-> <<>>,
   body |-> None]

\* the bodies posted: method absent or POST, url absent, a number, or a string
ProxyBodies ==
  [parses : {TRUE}, method : {"", "POST"},
   url : {JsonUndefined, JsonNumber("7"), JsonString(""), JsonString(UrlA),
          JsonString("a/x")},
   headers : {<<>>}, body : {None, Some("{}")}]
    \cup {MalformedBody}

ProxyStep(newExchanges, calls) ==
  /\ exchanges' = newExchanges
  /\ network' = network \o calls
  /\ UNCHANGED <<tabVars, historyVars, proxyMode, sends, distinctSends,
                 collectionVars, handlers, edits, query, lastOp>>

\* a client posts json: the handler answers at once or starts its outbound fetch
ProxyPost(json) ==
  LET handled == POST(Len(exchanges) + 1, json)
  IN /\ Len(exchanges) < MaxPosts
     /\ ProxyStep(Append(exchanges,
                         [json |-> json, pc |-> handled.pc, reply |-> handled.reply,
                          targetStatus |-> None, threw |-> FALSE]),
                  handled.calls)

\* the outbound fetch resolves with the target's status: fetch resolves only for
\* a url it can parse
OutboundCompletes(e, status) ==
  /\ exchanges[e].pc = "fetching"
  /\ IsUrl(exchanges[e].json.url.value)
  /\ ProxyStep([exchanges EXCEPT ![e].pc = "done",
                                 ![e].reply = Some(EnvelopeReply(status, "", "ok")),
                                 ![e].targetStatus = Some(status)], <<>>)

\* the outbound fetch throws: the catch block answers
OutboundThrows(e) ==
  /\ exchanges[e].pc = "fetching"
  /\ ProxyStep([exchanges EXCEPT ![e].pc = "done",
                                 ![e].reply = Some(ErrorReply("fetch failed")),
                                 ![e].threw = TRUE], <<>>)

NextProxy ==
  \/ \E json \in ProxyBodies : ProxyPost(json)
  \/ \E e \in 1..Len(exchanges), st \in TargetStatuses : OutboundCompletes(e, st)
  \/ \E e \in 1..Len(exchanges) : OutboundThrows(e)

SpecProxy == Init /\ [][NextProxy]_vars

(***************************************************************************)
(* Requests with and without a Content-Type header are posted to the proxy *)
(* endpoint.                                                               *)
(***************************************************************************)
CallerHeaders ==
  {<<>>, <<[key |-> "Accept", value |-> "text/plain"]>>,
   <<[key |-> "Content-Type", value |-> "text/plain"]>>,
   <<[key |-> "content-type", value |-> "text/plain"]>>,
   <<[key |-> "Accept", value |-> "text/plain"],
     [key |-> "CONTENT-TYPE", value |-> "text/xml"]>>}

ContentTypeBodies ==
  [parses : {TRUE}, method : {"POST"}, url : {JsonString(UrlA)},
   headers : CallerHeaders, body : {Some("{}")}]

NextContentType ==
  \/ \E json \in ContentTypeBodies : ProxyPost(json)
  \/ \E e \in 1..Len(exchanges) : OutboundCompletes(e, 200)

SpecContentType == Init /\ [][NextContentType]_vars

(***************************************************************************)
(* The collections store's collections and saved requests.  requests, a     *)
(* Map, is the sequence of its values in insertion order.  An id the store *)
(* generates is the text of its serial number and "_x": it has no ":".      *)
(***************************************************************************)
MaxCollections == 2   \* the number of collections added
MaxEdits == 5         \* the number of operations made in the editor and the sidebar

generateId(n) == ToString(n) \o "_x"

\* s.indexOf(c), counted from 1; 0 when c is not in s
IndexOf(s, c) ==
  LET found == {i \in 1..Len(s) : SubSeq(s, i, i) = c}
  IN IF found = {} THEN 0 ELSE CHOOSE i \in found : \A j \in found : i <= j

\* s.split(c)
RECURSIVE Split(_, _)
Split(s, c) ==
  LET i == IndexOf(s, c)
  IN IF i = 0 THEN <<s>>
     ELSE <<SubSeq(s, 1, i - 1)>> \o Split(SubSeq(s, i + 1, Len(s)), c)

\* requests.get(id): the index of the saved request id, or 0
requestIndex(rs, id) ==
  IF \E i \in 1..Len(rs) : rs[i].id = id
  THEN CHOOSE i \in 1..Len(rs) : rs[i].id = id
  ELSE 0

addCollection(cs, name, fresh) ==
  Append(cs, [id |-> fresh, name |-> name, requests |-> <<>>])

\* saveRequest that lists the new request in every collection
saveRequestInEveryCollection(cs, rs, collectionId, request, fresh) ==
  LET newRequest ==
        [f \in DOMAIN request \cup {"id"} |-> IF f = "id" THEN fresh ELSE request[f]]
  IN [requests |-> Append(rs, newRequest),
      collections |-> [i \in 1..Len(cs) |-> [cs[i] EXCEPT !.requests = Append(@, fresh)]],
      id |-> fresh]

saveRequest(cs, rs, collectionId, request, fresh) ==
  LET newRequest ==
        [f \in DOMAIN request \cup {"id"} |-> IF f = "id" THEN fresh ELSE request[f]]
  IN [requests |-> Append(rs, newRequest),
      collections |->
        [i \in 1..Len(cs) |->
           IF cs[i].id = collectionId
           THEN [cs[i] EXCEPT !.requests = Append(@, fresh)]
           ELSE cs[i]],
      id |-> fresh]

\* updateRequest that stores nothing
updateRequestDropped(rs, id, updates) == rs

updateRequest(rs, id, updates) ==
  [i \in 1..Len(rs) |-> IF rs[i].id = id THEN Spread(rs[i], updates) ELSE rs[i]]

\* deleteRequest that leaves the lists of the collections as they are
deleteRequestFromMapOnly(cs, rs, id) ==
  [requests |-> SelectSeq(rs, LAMBDA r : r.id # id), collections |-> cs]

deleteRequest(cs, rs, id) ==
  [requests |-> SelectSeq(rs, LAMBDA r : r.id # id),
   collections |->
     [i \in 1..Len(cs) |->
        [cs[i] EXCEPT !.requests = SelectSeq(@, LAMBDA r : r # id)]]]

\* deleteCollection that also deletes the requests the collection lists
deleteCollectionCascading(cs, rs, id) ==
  [collections |-> SelectSeq(cs, LAMBDA c : c.id # id),
   requests |-> SelectSeq(rs, LAMBDA r :
                  \A i \in 1..Len(cs) :
                    cs[i].id = id => \A k \in 1..Len(cs[i].requests) :
                                       cs[i].requests[k] # r.id)]

\* deleteCollection: collections.filter((c) => c.id !== id)
deleteCollection(cs, rs, id) ==
  [collections |-> SelectSeq(cs, LAMBDA c : c.id # id), requests |-> rs]

\* getRequest(id): requests.get(id), or None
getRequest(rs, id) ==
  IF requestIndex(rs, id) = 0 THEN None ELSE Some(rs[requestIndex(rs, id)])

(***************************************************************************)
(* Persistence of the collections store.  The requests map is stored as    *)
(* the list of its entries and built again from that list.                 *)
(***************************************************************************)
PersistedHistory == 30

\* Array.from(state.requests.entries())
MapEntries(rs) == [i \in 1..Len(rs) |-> <<rs[i].id, rs[i]>>]

\* map.set(key, value) on a map kept in insertion order
MapSet(rs, key, value) ==
  IF requestIndex(rs, key) = 0 THEN Append(rs, value)
  ELSE [i \in 1..Len(rs) |-> IF rs[i].id = key THEN value ELSE rs[i]]

\* new Map(list)
RECURSIVE NewMap(_)
NewMap(list) ==
  IF list = <<>> THEN <<>>
  ELSE MapSet(NewMap(SubSeq(list, 1, Len(list) - 1)),
              list[Len(list)][1], list[Len(list)][2])

\* partialize that stores the whole history
partializeWholeHistory(cs, rs, h) ==
  [collections |-> cs, requests |-> MapEntries(rs), history |-> h]

\* partialize: what of the collections store is written to storage
partialize(cs, rs, h) ==
  [collections |-> cs, requests |-> MapEntries(rs),
   history |-> Slice(h, PersistedHistory)]

\* merge: the store built from what was stored
merge(persisted) ==
  [collections |-> persisted.collections, requests |-> NewMap(persisted.requests),
   history |-> persisted.history]

(***************************************************************************)
(* Query parameters (lib/queryParams.ts).  A URL object is the record of   *)
(* the parts of an http url; URLSearchParams parses and serializes a query *)
(* as application/x-www-form-urlencoded.                                   *)
(***************************************************************************)
\* the index of the first character of s that is in cs, or 0
IndexOfAny(s, cs) ==
  LET found == {i \in 1..Len(s) : SubSeq(s, i, i) \in cs}
  IN IF found = {} THEN 0 ELSE CHOOSE i \in found : \A j \in found : i <= j

\* the characters a percent escape stands for
PercentEscapes == {"%20", "%23", "%25", "%26", "%2B", "%2F", "%3A", "%3D", "%3F"}
Unescaped(e) ==
  CASE e = "%20" -> " " [] e = "%23" -> "#" [] e = "%25" -> "%" [] e = "%26" -> "&"
    [] e = "%2B" -> "+" [] e = "%2F" -> "/" [] e = "%3A" -> ":" [] e = "%3D" -> "="
    [] e = "%3F" -> "?"

\* the urlencoded parser's decoding of a name or a value: "+" is a space, and
\* percent escapes are decoded
RECURSIVE FormDecode(_)
FormDecode(s) ==
  IF s = "" THEN ""
  ELSE IF SubSeq(s, 1, 1) = "+" THEN " " \o FormDecode(SubSeq(s, 2, Len(s)))
  ELSE IF Len(s) >= 3 /\ SubSeq(s, 1, 3) \in PercentEscapes
  THEN Unescaped(SubSeq(s, 1, 3)) \o FormDecode(SubSeq(s, 4, Len(s)))
  ELSE SubSeq(s, 1, 1) \o FormDecode(SubSeq(s, 2, Len(s)))

\* a serializer that writes names and values as they are
FormEncodeNothing(s) == s

\* the urlencoded serializer's encoding of a name or a value
RECURSIVE FormEncode(_)
FormEncode(s) ==
  IF s = "" THEN ""
  ELSE LET c == SubSeq(s, 1, 1)
           rest == FormEncode(SubSeq(s, 2, Len(s)))
       IN IF c = " " THEN "+" \o rest
          ELSE IF \E e \in PercentEscapes : Unescaped(e) = c
          THEN (CHOOSE e \in PercentEscapes : Unescaped(e) = c) \o rest
          ELSE c \o rest

\* a leading "?" is dropped
StripQuestion(s) ==
  IF s # "" /\ SubSeq(s, 1, 1) = "?" THEN SubSeq(s, 2, Len(s)) ELSE s

\* new URLSearchParams(init): the list of <<name, value>> pairs
URLSearchParams(init) ==
  LET sequences == SelectSeq(Split(StripQuestion(init), "&"), LAMBDA x : x # "")
  IN [i \in 1..Len(sequences) |->
        LET eq == IndexOf(sequences[i], "=")
        IN IF eq = 0 THEN <<FormDecode(sequences[i]), "">>
           ELSE <<FormDecode(SubSeq(sequences[i], 1, eq - 1)),
                  FormDecode(SubSeq(sequences[i], eq + 1, Len(sequences[i])))>>]

\* searchParams.toString()
SerializePairs(pairs) ==
  Join([i \in 1..Len(pairs) |->
          FormEncode(pairs[i][1]) \o "=" \o FormEncode(pairs[i][2])], "&")

\* new URL(url) for an http url that parses: origin, pathname, query (None when
\* the url has no "?") and hash
URL(url) ==
  LET start == SchemeEnd(url) + 3
      rest == SubSeq(url, start, Len(url))
      hostEnd == IndexOfAny(rest, {"/", "?", "#"})
      host == IF hostEnd = 0 THEN rest ELSE SubSeq(rest, 1, hostEnd - 1)
      tail == IF hostEnd = 0 THEN "" ELSE SubSeq(rest, hostEnd, Len(rest))
      hashAt == IndexOf(tail, "#")
      beforeHash == IF hashAt = 0 THEN tail ELSE SubSeq(tail, 1, hashAt - 1)
      queryAt == IndexOf(beforeHash, "?")
      path == IF queryAt = 0 THEN beforeHash ELSE SubSeq(beforeHash, 1, queryAt - 1)
  IN [origin |-> SubSeq(url, 1, start - 1) \o host,
      pathname |-> IF path = "" THEN "/" ELSE path,
      query |-> IF queryAt = 0 THEN None
                ELSE Some(SubSeq(beforeHash, queryAt + 1, Len(beforeHash))),
      hash |-> IF hashAt = 0 THEN "" ELSE SubSeq(tail, hashAt, Len(tail))]

\* urlObj.search
Search(urlObj) ==
  IF urlObj.query = None \/ urlObj.query = Some("") THEN "" ELSE "?" \o urlObj.query[1]

\* urlObj.toString()
Href(urlObj) ==
  urlObj.origin \o urlObj.pathname
    \o (IF urlObj.query = None THEN "" ELSE "?" \o urlObj.query[1]) \o urlObj.hash

\* extractQueryString: what is between the first "?" and the next "#"
extractQueryString(url) ==
  LET queryStart == IndexOf(url, "?")
      after == SubSeq(url, queryStart + 1, Len(url))
      hashStart == IndexOf(after, "#")
  IN IF queryStart = 0 THEN ""
     ELSE IF hashStart = 0 THEN after ELSE SubSeq(after, 1, hashStart - 1)

parseQueryString(queryString) ==
  IF queryString = "" THEN <<>>
  ELSE LET searchParams == URLSearchParams(StripQuestion(queryString))
       IN [i \in 1..Len(searchParams) |->
             [key |-> searchParams[i][1], value |-> searchParams[i][2],
              enabled |-> TRUE]]

parseUrlParams(url) ==
  IF url = "" THEN <<>>
  ELSE IF IsUrl(url) THEN parseQueryString(Search(URL(url)))
  ELSE parseQueryString(extractQueryString(url))

\* buildUrlWithParams that keeps the params whatever their key and enabled are
buildUrlWithAllParams(baseUrl, params) ==
  IF ~IsUrl(baseUrl) THEN baseUrl
  ELSE Href([URL(baseUrl) EXCEPT
               !.query = IF params = <<>> THEN None
                         ELSE Some(SerializePairs(
                                [i \in 1..Len(params) |->
                                   <<params[i].key, params[i].value>>]))])

buildUrlWithParams(baseUrl, params) ==
  IF ~IsUrl(baseUrl) THEN baseUrl
  ELSE LET kept == SelectSeq(params, LAMBDA param : param.enabled /\ param.key # "")
       IN Href([URL(baseUrl) EXCEPT
                  !.query = IF kept = <<>> THEN None
                            ELSE Some(SerializePairs(
                                   [i \in 1..Len(kept) |->
                                      <<kept[i].key, kept[i].value>>]))])

(***************************************************************************)
(* The request editor's and the sidebar's handlers.                        *)
(***************************************************************************)
\* getActiveTab(): the tab activeTabId names, or the first tab
getActiveTab(ts, act) ==
  IF HasTab(ts, act) THEN ts[findIndex(ts, act)] ELSE ts[1]

\* getCollectionRequestId(collectionRequestId): the saved request's id, or None
getCollectionRequestId(collectionRequestId) ==
  IF collectionRequestId = None \/ collectionRequestId[1] = "" THEN None
  ELSE LET parts == Split(collectionRequestId[1], ":")
       IN IF Len(parts) < 2 THEN None ELSE Some(parts[2])

\* new URL(url).hostname for the urls edited here, which have no port, query or
\* fragment; "" when the url has a scheme other than http and https
Hostname(url) ==
  LET i == SchemeEnd(url)
      rest == DropSlashes(SubSeq(url, i + 1, Len(url)))
      slash == IndexOf(rest, "/")
  IN IF SubSeq(url, 1, i - 1) \notin {"http", "https"} THEN ""
     ELSE IF slash = 0 THEN rest ELSE SubSeq(rest, 1, slash - 1)

\* the lines the editor's change handlers share: updateTab on the active tab,
\* marking it dirty unless it is linked, then updateRequest on the linked request
ChangeActiveTab(ts, act, rs, tabUpdates, requestUpdates) ==
  LET activeTab == getActiveTab(ts, act)
      shouldMarkDirty ==
        activeTab.collectionRequestId = None \/ activeTab.collectionRequestId[1] = ""
      requestId == getCollectionRequestId(activeTab.collectionRequestId)
      updated == updateTab(ts, act, activeTab.id, tabUpdates, shouldMarkDirty)
  IN [tabs |-> updated.tabs, activeTabId |-> updated.activeTabId,
      requests |-> IF requestId # None /\ requestId[1] # ""
                   THEN updateRequest(rs, requestId[1], requestUpdates)
                   ELSE rs]

handleUrlChange(ts, act, rs, url) ==
  LET activeTab == getActiveTab(ts, act)
      isDefaultName ==
        activeTab.name \in {"", "New Request", "Untitled", activeTab.url}
      tabName ==
        IF IsUrl(url) THEN (IF Hostname(url) # "" THEN Hostname(url) ELSE url)
        ELSE IF url # "" THEN url ELSE "Untitled"
  IN IF isDefaultName
     THEN ChangeActiveTab(ts, act, rs, [url |-> url, name |-> tabName],
                          [url |-> url, name |-> tabName])
     ELSE ChangeActiveTab(ts, act, rs, [url |-> url], [url |-> url])

handleMethodChange(ts, act, rs, method) ==
  ChangeActiveTab(ts, act, rs, [method |-> method], [method |-> method])

handleHeadersChange(ts, act, rs, headers) ==
  ChangeActiveTab(ts, act, rs, [headers |-> headers], [headers |-> headers])

handleParamsChange(ts, act, rs, params) ==
  ChangeActiveTab(ts, act, rs, [params |-> params], [params |-> params])

handleBodyChange(ts, act, rs, body) ==
  ChangeActiveTab(ts, act, rs, [body |-> body], [body |-> body])

\* the request handleMoveToCollection saves for a draft
MovedRequest(draft) ==
  [name |-> IF draft.name # "" THEN draft.name
            ELSE IF draft.url # "" THEN draft.url ELSE "Moved Request",
   method |-> draft.method, url |-> draft.url, headers |-> draft.headers,
   params |-> draft.params, body |-> draft.body]

handleMoveToCollection(cs, rs, draft, collectionId, fresh) ==
  saveRequest(cs, rs, collectionId, MovedRequest(draft), fresh)

\* the data handleOpenCollectionRequest passes for a saved request
OpenedData(request) ==
  [name |-> request.name, url |-> request.url, method |-> request.method,
   headers |-> request.headers, params |-> request.params, body |-> request.body]

(***************************************************************************)
(* Editing: the user adds a collection, edits the active tab, moves drafts  *)
(* into the collection, opens and deletes saved requests.                  *)
(***************************************************************************)
EditedUrls == {UrlA, "x"}
EditedMethods == {"POST"}
EditedHeaders == {<<[key |-> "Accept", value |-> "text/plain"]>>}
EditedParams == {<<[key |-> "q", value |-> "1", enabled |-> TRUE]>>}
EditedBodies == {None, Some([type |-> "json", content |-> "{}"])}

\* the saved request the active tab is linked to: its index in requests, or 0
LinkedRequest(ts, act, rs) ==
  LET requestId == getCollectionRequestId(getActiveTab(ts, act).collectionRequestId)
  IN IF requestId = None THEN 0 ELSE requestIndex(rs, requestId[1])

\* the stores after a handler of the editor or the sidebar ran
EditorResult(name, result) ==
  /\ tabs' = result.tabs
  /\ activeTabId' = result.activeTabId
  /\ requests' = result.requests
  /\ collections' = result.collections
  /\ lastOp' = [name |-> name, found |-> (LinkedRequest(tabs, activeTabId, requests) # 0),
                single |-> (Len(tabs) = 1),
                changed |-> (result.tabs # tabs \/ result.requests # requests)]
  /\ UNCHANGED <<history, callerResponse, sendVars, distinctSends, exchanges, handlers,
                 query>>

\* a handler of the editor or the sidebar ran, one of MaxEdits operations
EditorStep(name, result) ==
  /\ edits < MaxEdits
  /\ edits' = edits + 1
  /\ EditorResult(name, result)

\* one of the editor's change handlers ran
Edited(name, result) ==
  /\ EditorStep(name, [tabs |-> result.tabs, activeTabId |-> result.activeTabId,
                       requests |-> result.requests, collections |-> collections])
  /\ UNCHANGED <<nextTabId, nextGenId>>

HandleUrlChange(url) ==
  Edited("handleUrlChange", handleUrlChange(tabs, activeTabId, requests, url))

HandleMethodChange(method) ==
  Edited("handleMethodChange", handleMethodChange(tabs, activeTabId, requests, method))

HandleHeadersChange(headers) ==
  Edited("handleHeadersChange", handleHeadersChange(tabs, activeTabId, requests, headers))

HandleParamsChange(params) ==
  Edited("handleParamsChange", handleParamsChange(tabs, activeTabId, requests, params))

HandleBodyChange(body) ==
  Edited("handleBodyChange", handleBodyChange(tabs, activeTabId, requests, body))

\* Ctrl+S: updateTab(activeTab.id, { isDirty: false })
HandleSaveShortcut ==
  /\ Edited("handleKeyDown",
            [tabs |-> updateTab(tabs, activeTabId, getActiveTab(tabs, activeTabId).id,
                                [isDirty |-> FALSE], TRUE).tabs,
             activeTabId |-> activeTabId, requests |-> requests])

HandleAddCollection(name) ==
  /\ Len(collections) < MaxCollections
  /\ nextGenId <= MaxGenIds
  /\ EditorStep("handleAddCollection",
                [tabs |-> tabs, activeTabId |-> activeTabId, requests |-> requests,
                 collections |-> addCollection(collections, name, generateId(nextGenId))])
  /\ nextGenId' = nextGenId + 1
  /\ UNCHANGED nextTabId

\* a draft, that is a dirty tab, is moved to a collection from the sidebar
HandleMoveToCollection(i, c) ==
  /\ tabs[i].isDirty
  /\ nextGenId <= MaxGenIds
  /\ LET saved == handleMoveToCollection(collections, requests, tabs[i],
                                         collections[c].id, generateId(nextGenId))
     IN EditorStep("handleMoveToCollection",
                   [tabs |-> tabs, activeTabId |-> activeTabId,
                    requests |-> saved.requests, collections |-> saved.collections])
  /\ nextGenId' = nextGenId + 1
  /\ UNCHANGED nextTabId

\* a saved request listed under its collection is opened from the sidebar
HandleOpenCollectionRequest(c, r) ==
  LET requestId == collections[c].requests[r]
      k == collections[c].id \o ":" \o requestId
      reuse == findByCollectionRequest(tabs, k) # 0
      opened == openCollectionRequest(tabs, activeTabId, k,
                                      OpenedData(requests[requestIndex(requests, requestId)]),
                                      nextTabId)
  IN /\ requestIndex(requests, requestId) # 0
     /\ ~reuse => (Len(tabs) < MaxTabs /\ nextTabId <= MaxTabIds)
     /\ EditorStep("handleOpenCollectionRequest",
                   [tabs |-> opened.tabs, activeTabId |-> opened.activeTabId,
                    requests |-> requests, collections |-> collections])
     /\ nextTabId' = IF reuse THEN nextTabId ELSE nextTabId + 1
     /\ UNCHANGED nextGenId

\* the request the sidebar's "add request" form saves
NewRequest(name) ==
  [name |-> name, method |-> "GET", url |-> "", headers |-> <<>>, params |-> <<>>,
   body |-> None]

\* handleAddRequestToCollection for the c-th collection listed
HandleAddRequestToCollection(c, name) ==
  /\ nextGenId <= MaxGenIds
  /\ LET saved == saveRequest(collections, requests, collections[c].id,
                              NewRequest(name), generateId(nextGenId))
     IN EditorStep("handleAddRequestToCollection",
                   [tabs |-> tabs, activeTabId |-> activeTabId,
                    requests |-> saved.requests, collections |-> saved.collections])
  /\ nextGenId' = nextGenId + 1
  /\ UNCHANGED nextTabId

\* the c-th collection listed is deleted from the sidebar
HandleDeleteCollection(c) ==
  /\ LET deleted == deleteCollection(collections, requests, collections[c].id)
     IN EditorStep("deleteCollection",
                   [tabs |-> tabs, activeTabId |-> activeTabId,
                    requests |-> deleted.requests, collections |-> deleted.collections])
  /\ UNCHANGED <<nextTabId, nextGenId>>

\* a saved request is deleted from the sidebar
HandleDeleteRequest(id) ==
  /\ LET deleted == deleteRequest(collections, requests, id)
     IN EditorStep("deleteRequest",
                   [tabs |-> tabs, activeTabId |-> activeTabId,
                    requests |-> deleted.requests, collections |-> deleted.collections])
  /\ UNCHANGED <<nextTabId, nextGenId>>

NextEditor ==
  \/ \E url \in EditedUrls : HandleUrlChange(url)
  \/ \E method \in EditedMethods : HandleMethodChange(method)
  \/ \E headers \in EditedHeaders : HandleHeadersChange(headers)
  \/ \E params \in EditedParams : HandleParamsChange(params)
  \/ \E body \in EditedBodies : HandleBodyChange(body)
  \/ HandleSaveShortcut
  \/ HandleAddCollection("col")
  \/ \E i \in 1..Len(tabs), c \in 1..Len(collections) : HandleMoveToCollection(i, c)
  \/ \E c \in 1..Len(collections) :
       \E r \in 1..Len(collections[c].requests) : HandleOpenCollectionRequest(c, r)
  \/ \E i \in 1..Len(requests) : HandleDeleteRequest(requests[i].id)
  \/ \E id \in TabIds \ {0} : SetActiveTab(id)

SpecEditor == Init /\ [][NextEditor]_vars

(***************************************************************************)
(* The query round trip: a url with a query is parsed into params and      *)
(* built again from them, twice.                                           *)
(***************************************************************************)
MaxQueryLen == 4      \* the number of tokens of a query

\* what the queries are made of: a letter, the separators, a space written as
\* "+", an escaped "=", and "?"
QueryTokens == {"a", "=", "&", "+", "%3D", "?"}

\* the strings of at most n tokens
RECURSIVE TokenStrings(_)
TokenStrings(n) ==
  IF n = 0 THEN {""}
  ELSE LET shorter == TokenStrings(n - 1)
       IN shorter \cup {t \o q : t \in QueryTokens, q \in shorter}

\* absolute urls with a query that is not empty, with and without a hash
QueryUrls ==
  {"http://a/x?" \o q \o hash : q \in TokenStrings(MaxQueryLen) \ {""},
                                hash \in {"", "#h"}}

InitQuery ==
  /\ InitStores
  /\ query \in {[pc |-> "start", url |-> u, result |-> "", again |-> ""] : u \in QueryUrls}

QueryStep(next) ==
  /\ query' = next
  /\ UNCHANGED <<tabVars, historyVars, sendVars, distinctSends, exchanges,
                 collectionVars, handlers, edits, lastOp>>

\* buildUrlWithParams(u, parseUrlParams(u))
RoundTrip ==
  /\ query.pc = "start"
  /\ QueryStep([query EXCEPT !.pc = "once",
                             !.result = buildUrlWithParams(query.url,
                                                           parseUrlParams(query.url))])

\* the same on the result
RoundTripAgain ==
  /\ query.pc = "once"
  /\ QueryStep([query EXCEPT !.pc = "twice",
                             !.again = buildUrlWithParams(query.result,
                                                          parseUrlParams(query.result))])

NextQuery ==
  \/ RoundTrip
  \/ RoundTripAgain

SpecQuery == InitQuery /\ [][NextQuery]_vars

(***************************************************************************)
(* Building a url from the rows of the params editor.                      *)
(***************************************************************************)
MaxParams == 2        \* the number of rows of the params editor

\* urls that parse, with and without a query, and strings that do not parse
BaseUrls == {"http://a/x?a=a", "http://a/x", "http://a?a#h", "a/x?a=a", "x", ""}

ParamRows == [key : {"", "k", "a"}, value : {"", "="}, enabled : BOOLEAN]

\* the lists of at most n rows
RECURSIVE ParamLists(_)
ParamLists(n) ==
  IF n = 0 THEN {<<>>}
  ELSE LET shorter == ParamLists(n - 1)
       IN shorter \cup {Append(rows, row) : rows \in shorter, row \in ParamRows}

InitBuild ==
  /\ InitStores
  /\ query \in {[pc |-> "start", url |-> u, params |-> rows, result |-> ""] :
                  u \in BaseUrls, rows \in ParamLists(MaxParams)}

\* buildUrlWithParams(url, params), as updateParam and removeParam call it
BuildUrl ==
  /\ query.pc = "start"
  /\ QueryStep([query EXCEPT !.pc = "built",
                             !.result = buildUrlWithParams(query.url, query.params)])

NextBuild == BuildUrl

SpecBuild == InitBuild /\ [][NextBuild]_vars

(***************************************************************************)
(* The sidebar's collections: collections are added and deleted, requests  *)
(* are added to them and deleted.                                          *)
(***************************************************************************)
CollectionNames == {"col", "api"}
RequestNames == {"req", "list"}

NextSidebar ==
  \/ \E name \in CollectionNames : HandleAddCollection(name)
  \/ \E c \in 1..Len(collections), name \in RequestNames :
       HandleAddRequestToCollection(c, name)
  \/ \E c \in 1..Len(collections) : HandleDeleteCollection(c)
  \/ \E i \in 1..Len(requests) : HandleDeleteRequest(requests[i].id)

SpecSidebar == Init /\ [][NextSidebar]_vars

(***************************************************************************)
(* The five operations of the collections store on collections and saved   *)
(* requests, with ids that are saved, deleted, or were never generated.    *)
(***************************************************************************)
GeneratedIds == {generateId(n) : n \in 1..MaxGenIds} \cup {"none"}

\* updateRequest(id, updates) is called on the store
UpdateRequest(id, updates) ==
  /\ EditorStep("updateRequest",
                [tabs |-> tabs, activeTabId |-> activeTabId,
                 requests |-> updateRequest(requests, id, updates),
                 collections |-> collections])
  /\ UNCHANGED <<nextTabId, nextGenId>>

NextListed ==
  \/ HandleAddCollection("col")
  \/ \E c \in 1..Len(collections) : HandleAddRequestToCollection(c, "req")
  \/ \E c \in 1..Len(collections) : HandleDeleteCollection(c)
  \/ \E id \in GeneratedIds : HandleDeleteRequest(id)
  \/ \E id \in GeneratedIds : UpdateRequest(id, [url |-> UrlB])

SpecListed == Init /\ [][NextListed]_vars

(***************************************************************************)
(* Saved requests are opened in tabs from the sidebar and edited there,    *)
(* while requests and collections are deleted and tabs are closed.         *)
(***************************************************************************)
NextLinkage ==
  \/ HandleAddCollection("col")
  \/ \E c \in 1..Len(collections) : HandleAddRequestToCollection(c, "req")
  \/ \E c \in 1..Len(collections) :
       \E r \in 1..Len(collections[c].requests) : HandleOpenCollectionRequest(c, r)
  \/ \E i \in 1..Len(requests) : HandleDeleteRequest(requests[i].id)
  \/ \E c \in 1..Len(collections) : HandleDeleteCollection(c)
  \/ \E id \in TabIds \ {0} : RemoveTab(id)
  \/ HandleUrlChange(UrlA)

SpecLinkage == Init /\ [][NextLinkage]_vars

(***************************************************************************)
(* Reloading the page: the collections store is rehydrated from what its   *)
(* last change wrote to storage.                                           *)
(***************************************************************************)
\* the page is reloaded
ReloadCollections ==
  LET rehydrated == merge(partialize(collections, requests, history))
  IN /\ history' = rehydrated.history
     /\ collections' = rehydrated.collections
     /\ requests' = rehydrated.requests
     /\ lastOp' = [name |-> "reload", found |-> (Len(history) > PersistedHistory),
                   single |-> (Len(history) = 1),
                   changed |-> (rehydrated.history # history), index |-> 0]
     /\ UNCHANGED <<tabVars, sendVars, exchanges, handlers, edits, query, nextGenId,
                    callerResponse, distinctSends>>

NextPersist ==
  \/ RecordDistinctSend
  \/ \E name \in CollectionNames : HandleAddCollection(name)
  \/ \E c \in 1..Len(collections), name \in RequestNames :
       HandleAddRequestToCollection(c, name)
  \/ ReloadCollections

SpecPersist == Init /\ [][NextPersist]_vars

(***************************************************************************)
(* Sending from the editor: handleSendRequest captures the active tab,     *)
(* awaits the mutation, and records the response in the history.  The n-th *)
(* call of handleSendRequest that reaches mutateAsync starts the n-th send. *)
(* The continuation of a call runs when its send settles, so it is part of *)
(* the step in which the send settles.                                     *)
(***************************************************************************)
\* new URL(url).pathname for the urls edited here
Pathname(url) ==
  LET rest == DropSlashes(SubSeq(url, SchemeEnd(url) + 1, Len(url)))
      slash == IndexOf(rest, "/")
  IN IF slash = 0 THEN "/" ELSE SubSeq(rest, slash, Len(rest))

\* searchParams.set(key, value): the first pair named key gets the value and the
\* other pairs named key are removed; without such a pair, one is appended
SearchParamsSet(pairs, key, value) ==
  LET named == {i \in 1..Len(pairs) : pairs[i][1] = key}
      first == CHOOSE i \in named : \A j \in named : i <= j
      others == {i \in 1..Len(pairs) : i \notin named \/ i = first}
      position(n) == CHOOSE i \in others : Cardinality({j \in others : j < i}) = n - 1
  IN IF named = {} THEN Append(pairs, <<key, value>>)
     ELSE [n \in 1..Cardinality(others) |->
             IF position(n) = first THEN <<key, value>> ELSE pairs[position(n)]]

\* params.forEach((p) => urlObj.searchParams.set(p.key, p.value))
RECURSIVE SetEach(_, _)
SetEach(pairs, params) ==
  IF params = <<>> THEN pairs
  ELSE SetEach(SearchParamsSet(pairs, params[1].key, params[1].value), Tail(params))

\* the url handleSendRequest sends: the tab's url, with the enabled params set on
\* it when the tab has params and the url parses
SentUrl(tab) ==
  LET kept == SelectSeq(tab.params, LAMBDA q : q.enabled /\ q.key # "")
      urlObj == URL(tab.url)
      pairs == SetEach(URLSearchParams(Search(urlObj)), kept)
  IN IF tab.params # <<>> /\ IsUrl(tab.url)
     THEN IF kept = <<>> THEN Href(urlObj)
          ELSE Href([urlObj EXCEPT !.query = Some(SerializePairs(pairs))])
     ELSE tab.url

\* btoa(text), tabulated for the credentials of the model
btoa(text) ==
  CASE text = "u:p" -> "dTpw"
    [] text = ":" -> "Og=="
    [] OTHER -> "YnRvYQ=="

\* the header handleSendRequest pushes for the tab's auth: a list of one header, or of none
authHeaders(auth) ==
  IF auth.type = "bearer" /\ auth.bearer.token # ""
  THEN <<[key |-> "Authorization", value |-> "Bearer " \o auth.bearer.token]>>
  ELSE IF auth.type = "basic"
  THEN <<[key |-> "Authorization",
          value |-> "Basic " \o btoa(auth.basic.username \o ":" \o auth.basic.password)]>>
  ELSE IF auth.type = "api-key" /\ auth.apiKey.addTo = "header"
  THEN <<[key |-> auth.apiKey.key, value |-> auth.apiKey.value]>>
  ELSE <<>>

\* Object.fromEntries(headers.map((h) => [h.key, h.value])): one entry for each
\* key, where the key came first, with the value that came last
ObjectFromEntries(headers) ==
  LET firsts == {i \in 1..Len(headers) : \A j \in 1..(i - 1) : headers[j].key # headers[i].key}
      position(n) == CHOOSE i \in firsts : Cardinality({j \in firsts : j < i}) = n - 1
      last(key) == CHOOSE i \in 1..Len(headers) :
                     /\ headers[i].key = key
                     /\ \A j \in (i + 1)..Len(headers) : headers[j].key # key
  IN [n \in 1..Cardinality(firsts) |->
        [key |-> headers[position(n)].key,
         value |-> headers[last(headers[position(n)].key)].value]]

\* handleSendRequest that pushes the auth header onto the tab's own header list
SentHeadersStored(tab) == tab.headers \o authHeaders(tab.auth)

\* the headers handleSendRequest records in the history: activeTab.headers
SentHeaders(tab) == tab.headers

\* the request handleSendRequest passes to mutateAsync
SentRequest(tab) ==
  [method |-> tab.method, url |-> SentUrl(tab),
   headers |-> ObjectFromEntries(tab.headers \o authHeaders(tab.auth)),
   body |-> IF tab.body = None THEN None ELSE Some(tab.body[1].content)]

\* the entry handleSendRequest passes to addToHistory
SentEntry(tab, response) ==
  [requestId |-> tab.id,
   request |-> [id |-> tab.id,
                name |-> IF IsUrl(tab.url)
                         THEN (IF Pathname(tab.url) # "" THEN Pathname(tab.url)
                               ELSE tab.url)
                         ELSE IF tab.name # "" THEN tab.name ELSE "Request",
                method |-> tab.method, url |-> tab.url, headers |-> SentHeaders(tab),
                params |-> tab.params, body |-> tab.body],
   response |-> response]

\* the continuation that records an entry whatever the outcome
recordOutcomeAlways(h, tab, outcome, fresh) ==
  addToHistory(h, SentEntry(tab, IF outcome.kind = "response" THEN outcome.response
                                 ELSE ResponseWithBody(500, "")), fresh)

\* the continuation that records nothing for a tab that was closed
recordOutcomeOfOpenTab(h, tab, outcome, fresh) ==
  IF outcome.kind = "response" /\ HasTab(tabs, tab.id)
  THEN addToHistory(h, SentEntry(tab, outcome.response), fresh)
  ELSE h

\* handleSendRequest after await mutateAsync: the history afterwards
recordOutcome(h, tab, outcome, fresh) ==
  IF outcome.kind = "response"
  THEN addToHistory(h, SentEntry(tab, outcome.response), fresh)
  ELSE h

\* the send of handler i settles as settled: the continuation of handleSendRequest runs
Settle(i, settled) ==
  LET tab == handlers[i].tab
      isNew == findHistoryIndex(history, historyKey(SentEntry(tab, <<>>).request)) = 0
      settledBefore == Cardinality({k \in 1..Len(handlers) : handlers[k].pc = "done"})
  IN /\ sends' = [sends EXCEPT ![i] = settled]
     /\ handlers' = [handlers EXCEPT ![i].pc = "done", ![i].order = settledBefore + 1]
     /\ history' = recordOutcome(history, tab, settled.outcome, nextGenId)
     /\ nextGenId' = IF settled.outcome.kind = "response" /\ isNew
                     THEN nextGenId + 1 ELSE nextGenId
     /\ callerResponse' = IF settled.outcome.kind = "response"
                          THEN Some(settled.outcome.response) ELSE callerResponse
     /\ lastOp' = [name |-> IF settled.outcome.kind = "response" THEN "sendSucceeded"
                             ELSE "sendFailed",
                   found |-> ~isNew, single |-> (Len(tabs) = 1), changed |-> FALSE]
     /\ UNCHANGED <<tabVars, proxyMode, network, distinctSends, exchanges,
                    collectionVars, edits, query>>

\* handleSendRequest, up to await mutateAsync; a request that does not parse
\* rejects at once and the catch block runs
HandleSendRequest ==
  /\ Len(sends) < MaxSends
  /\ \E activeTab \in {getActiveTab(tabs, activeTabId)} :
       /\ activeTab.url # ""
       /\ \E started \in {StartedSend(Len(sends) + 1, SentRequest(activeTab))} :
            /\ sends' = Append(sends, started.send)
            /\ network' = network \o started.calls
            /\ handlers' =
                 Append(handlers,
                        IF started.send.pc = "done"
                        THEN [tab |-> activeTab, pc |-> "done",
                              order |-> 1 + Cardinality({k \in 1..Len(handlers) :
                                                           handlers[k].pc = "done"})]
                        ELSE [tab |-> activeTab, pc |-> "awaiting", order |-> 0])
            /\ history' = recordOutcome(history, activeTab, started.send.outcome, nextGenId)
  /\ lastOp' = [name |-> "handleSendRequest", found |-> FALSE,
                single |-> (Len(tabs) = 1), changed |-> FALSE]
  /\ UNCHANGED <<tabVars, nextGenId, callerResponse, proxyMode, distinctSends,
                 exchanges, collectionVars, edits, query>>

\* the url of the active tab is edited between sends
EditUrl(url) ==
  LET result == handleUrlChange(tabs, activeTabId, requests, url)
  IN /\ EditorResult("handleUrlChange",
                     [tabs |-> result.tabs, activeTabId |-> result.activeTabId,
                      requests |-> result.requests, collections |-> collections])
     /\ UNCHANGED <<nextTabId, nextGenId, edits>>

\* the proxy's POST handler runs for the send of handler i
ProxyHandles(i) ==
  /\ sends[i].pc = "proxy"
  /\ \E handled \in {POST(i, RequestJson(sends[i].request))} :
        IF handled.pc = "done"
        THEN /\ Settle(i, [sends[i] EXCEPT !.pc = "done", !.reply = handled.reply,
                                        !.outcome = proxyOutcome(handled.reply[1])])
             /\ UNCHANGED network
        ELSE /\ sends' = [sends EXCEPT ![i].pc = "target"]
             /\ network' = network \o handled.calls
             /\ UNCHANGED <<tabVars, historyVars, proxyMode, distinctSends, exchanges,
                            collectionVars, handlers, edits, query, lastOp>>

\* the target answers the send of handler i
TargetResponds(i, status) ==
  /\ sends[i].pc = "target"
  /\ Settle(i, answered(sends[i], status))

\* the fetch of the target throws for the send of handler i
TargetFails(i) ==
  /\ sends[i].pc = "target"
  /\ Settle(i, unreachable(sends[i], "fetch failed"))

\* the statuses targets answer sends from the editor with
AnsweredStatuses == {200, 404}

NextFlow ==
  \/ \E url \in EditedUrls : EditUrl(url)
  \/ \E b \in BOOLEAN : SetProxyMode(b)
  \/ HandleSendRequest
  \/ \E i \in 1..Len(sends) : ProxyHandles(i)
  \/ \E i \in 1..Len(sends), st \in AnsweredStatuses : TargetResponds(i, st)
  \/ \E i \in 1..Len(sends) : TargetFails(i)

SpecFlow == Init /\ [][NextFlow]_vars

(***************************************************************************)
(* Closing tabs while their sends are in flight.                           *)
(***************************************************************************)
\* the tab that issued the send of handler i is closed while the send is in flight
CloseIssuer(i) ==
  /\ handlers[i].pc = "awaiting"
  /\ HasTab(tabs, handlers[i].tab.id)
  /\ RemoveTab(handlers[i].tab.id)

NextClose ==
  \/ EditUrl(UrlA)
  \/ AddTab
  \/ \E i \in 1..Len(handlers) : CloseIssuer(i)
  \/ HandleSendRequest
  \/ \E i \in 1..Len(sends) : ProxyHandles(i)
  \/ \E i \in 1..Len(sends) : TargetResponds(i, 200)

SpecClose == Init /\ [][NextClose]_vars

(***************************************************************************)
(* Sending with credentials: the auth of the active tab is edited, a saved *)
(* request is opened and edited, and the active tab is sent.               *)
(***************************************************************************)
\* handleAuthChange: updateTab on the active tab, marking it dirty unless it is linked
handleAuthChange(ts, act, rs, auth) ==
  LET activeTab == getActiveTab(ts, act)
      shouldMarkDirty ==
        activeTab.collectionRequestId = None \/ activeTab.collectionRequestId[1] = ""
      updated == updateTab(ts, act, activeTab.id, [auth |-> auth], shouldMarkDirty)
  IN [tabs |-> updated.tabs, activeTabId |-> updated.activeTabId, requests |-> rs]

AuthConfigs ==
  {[type |-> "none"],
   [type |-> "bearer", bearer |-> [token |-> "t"]],
   [type |-> "bearer", bearer |-> [token |-> ""]],
   [type |-> "basic", basic |-> [username |-> "u", password |-> "p"]],
   [type |-> "api-key", apiKey |-> [key |-> "X-Key", value |-> "k", addTo |-> "header"]],
   [type |-> "api-key", apiKey |-> [key |-> "X-Key", value |-> "k", addTo |-> "query"]]}

\* header lists of the tab: none, one the credential header leaves alone, and
\* one it replaces in the request
AuthTabHeaders ==
  {<<>>, <<[key |-> "Accept", value |-> "text/plain"]>>,
   <<[key |-> "Authorization", value |-> "mine"]>>}

\* the stores after the user prepared a request: when linked, a collection was
\* added, a request was added to it and opened in a tab; then the url, the
\* headers and the auth of the active tab were edited
PreparedStores(linked, headers, auth) ==
  LET cs == addCollection(<<>>, "col", generateId(1))
      saved == saveRequest(cs, <<>>, cs[1].id, NewRequest("req"), generateId(2))
      opened == openCollectionRequest(<<createDefaultTab(1)>>, 1,
                                      cs[1].id \o ":" \o saved.id,
                                      OpenedData(saved.requests[1]), 2)
      start == IF linked
               THEN [tabs |-> opened.tabs, activeTabId |-> opened.activeTabId,
                     requests |-> saved.requests]
               ELSE [tabs |-> <<createDefaultTab(1)>>, activeTabId |-> 1,
                     requests |-> <<>>]
      withUrl ==
        {handleUrlChange(s.tabs, s.activeTabId, s.requests, UrlA) : s \in {start}}
      withHeaders ==
        {handleHeadersChange(s.tabs, s.activeTabId, s.requests, headers) : s \in withUrl}
      withAuth ==
        {handleAuthChange(s.tabs, s.activeTabId, s.requests, auth) : s \in withHeaders}
  IN CHOOSE prepared \in
       {[tabs |-> s.tabs, activeTabId |-> s.activeTabId, requests |-> s.requests,
         collections |-> IF linked THEN saved.collections ELSE <<>>,
         nextTabId |-> IF linked THEN 3 ELSE 2,
         nextGenId |-> IF linked THEN 3 ELSE 1] : s \in withAuth} : TRUE

\* the request is prepared and nothing was sent; edits counts no operation yet
InitAuth ==
  \E linked \in BOOLEAN, headers \in AuthTabHeaders, auth \in AuthConfigs :
    \E prepared \in {PreparedStores(linked, headers, auth)} :
       /\ tabs = prepared.tabs
       /\ activeTabId = prepared.activeTabId
       /\ nextTabId = prepared.nextTabId
       /\ history = <<>>
       /\ nextGenId = prepared.nextGenId
       /\ callerResponse = None
       /\ proxyMode = TRUE
       /\ sends = <<>>
       /\ network = <<>>
       /\ distinctSends = [total |-> 0, sinceClear |-> 0]
       /\ exchanges = <<>>
       /\ collections = prepared.collections
       /\ requests = prepared.requests
       /\ handlers = <<>>
       /\ edits = 0
       /\ query = NoQuery
       /\ lastOp = NoOp

NextAuth ==
  \/ \E id \in TabIds \ {0} : SetActiveTab(id)
  \/ HandleSendRequest
  \/ \E i \in 1..Len(sends) : ProxyHandles(i)
  \/ \E i \in 1..Len(sends) : TargetResponds(i, 200)

SpecAuth == InitAuth /\ [][NextAuth]_vars

(***************************************************************************)
(* The request panel: its effect derives the params of the active tab from *)
(* the url whenever the url it is given differs from the last one it saw.  *)
(* The effect runs after the render that follows a handler, so it is part  *)
(* of the handler's step.  query holds the panel's lastSyncedUrlRef.       *)
(***************************************************************************)
areParamsEqual(left, right) ==
  /\ Len(left) = Len(right)
  /\ \A i \in 1..Len(left) : left[i].key = right[i].key /\ left[i].value = right[i].value

\* a synchronization that keeps the parsed params only
syncParamsParsedOnly(url, params) ==
  LET parsedParams == parseUrlParams(url)
      enabledParams == SelectSeq(params, LAMBDA param : param.enabled)
  IN IF areParamsEqual(parsedParams, enabledParams)
     THEN [called |-> FALSE, params |-> params]
     ELSE [called |-> TRUE, params |-> parsedParams]

\* the effect after lastSyncedUrlRef was set: whether it calls onParamsChange, and with what
syncParams(url, params) ==
  CHOOSE synced \in
    {LET enabledParams == SelectSeq(params, LAMBDA param : param.enabled)
         disabledParams ==
           SelectSeq(params, LAMBDA param :
                       /\ ~param.enabled
                       /\ ~\E k \in 1..Len(parsedParams) : parsedParams[k].key = param.key)
     IN IF areParamsEqual(parsedParams, enabledParams)
        THEN [called |-> FALSE, params |-> params]
        ELSE [called |-> TRUE, params |-> parsedParams \o disabledParams]
       : parsedParams \in {parseUrlParams(url)}} : TRUE

\* the stores after a handler of the panel ran and, after it, the effect
PanelStep(name, handler) ==
  \E handled \in {handler} :
  \E activeTab \in {getActiveTab(handled.tabs, handled.activeTabId)} :
  \E synced \in {syncParams(activeTab.url, activeTab.params)} :
  LET runs == query.lastSyncedUrl # activeTab.url
      result ==
        IF runs /\ synced.called
        THEN handleParamsChange(handled.tabs, handled.activeTabId, handled.requests,
                                synced.params)
        ELSE handled
  IN /\ tabs' = result.tabs
     /\ activeTabId' = result.activeTabId
     /\ requests' = result.requests
     /\ query' = [query EXCEPT !.lastSyncedUrl = activeTab.url]
     /\ lastOp' = [name |-> name, found |-> (runs /\ synced.called),
                   single |-> (Len(tabs) = 1), changed |-> (result.tabs # tabs)]
     /\ UNCHANGED <<nextTabId, historyVars, sendVars, distinctSends, exchanges,
                    collections, handlers, edits>>

\* the user types url in the url bar: onUrlChange(url)
TypeUrl(url) ==
  PanelStep("typeUrl", handleUrlChange(tabs, activeTabId, requests, url))

\* updateParam(index, 'enabled', !params[index].enabled)
toggleParam(params, index) ==
  [params EXCEPT ![index].enabled = ~params[index].enabled]

\* the user clicks the checkbox of row index: onChange(newParams), then
\* onUrlChange(buildUrlWithParams(url, newParams))
ToggleParam(index) ==
  \E activeTab \in {getActiveTab(tabs, activeTabId)} :
    /\ index \in 1..Len(activeTab.params)
    /\ \E newParams \in {toggleParam(activeTab.params, index)} :
       \E changed \in {handleParamsChange(tabs, activeTabId, requests, newParams)} :
       \E url \in {buildUrlWithParams(activeTab.url, newParams)} :
         PanelStep("toggleParam",
                   handleUrlChange(changed.tabs, changed.activeTabId, changed.requests,
                                   url))

TypedUrls == {"http://a/x?a=1", "http://a/x?a=2&b=1", "http://a/x?b=1", "http://a/x",
              "http://a/x?a=1&a=2", "x?a=1"}

\* the panel is mounted on the default tab: the effect has seen its empty url
InitPanel == InitStores /\ query = [pc |-> "panel", lastSyncedUrl |-> ""]

NextPanel ==
  \/ \E url \in TypedUrls : TypeUrl(url)
  \/ \E index \in 1..Len(getActiveTab(tabs, activeTabId).params) : ToggleParam(index)

SpecPanel == InitPanel /\ [][NextPanel]_vars

(***************************************************************************)
(* Properties of the tabs store.                                           *)
(***************************************************************************)

\* C1: the tab list is never empty, whatever calls are made (with any ids).
TabsNeverEmpty == Len(tabs) >= 1

\* removeTab closed one of two tabs and one tab is left
TabsNeverEmptyWitness ==
  lastOp.name = "removeTab" /\ lastOp.found /\ ~lastOp.single /\ Len(tabs) = 1

\* C2: activeTabId is always the id of a tab of the list.
ActiveTabExists == HasTab(tabs, activeTabId)

\* C7: removeTab on the only tab leaves exactly one tab, which has a new id,
\* default fields, and is the active tab.
RemoveLastTabReplaces ==
  [][\A id \in TabIds :
       (Len(tabs) = 1 /\ HasTab(tabs, id) /\ RemoveTab(id)) =>
         /\ Len(tabs') = 1
         /\ tabs'[1].id # tabs[1].id
         /\ tabs'[1].id \notin 0..(nextTabId - 1)
         /\ tabs'[1].method = "GET"
         /\ tabs'[1].url = ""
         /\ tabs'[1].headers = <<>>
         /\ tabs'[1].params = <<>>
         /\ tabs'[1].body = None
         /\ tabs'[1].auth = [type |-> "none"]
         /\ tabs'[1].isDirty = FALSE
         /\ tabs'[1].collectionRequestId = None
         /\ activeTabId' = tabs'[1].id]_vars

\* removeTab was called on the only tab, with that tab's id
RemoveLastTabWitness ==
  lastOp.name = "removeTab" /\ lastOp.single /\ lastOp.found /\ lastOp.changed

\* C8: updateTab and removeTab with an id that names no tab change neither the
\* tab list nor activeTabId, also when there is a single tab.
NonexistentIdIsNoOp ==
  [][\A id \in TabIds :
       (/\ ~HasTab(tabs, id)
        /\ \/ RemoveTab(id)
           \/ \E u \in TabUpdates, m \in BOOLEAN : UpdateTab(id, u, m)) =>
         (tabs' = tabs /\ activeTabId' = activeTabId)]_vars

\* the collectionRequestId k tags at most one tab of ts
TaggedTabs(ts, k) == {i \in 1..Len(ts) : ts[i].collectionRequestId = Some(k)}

\* C9: at most one tab carries a given collectionRequestId, and opening a
\* collectionRequestId that already tags a tab leaves the number of tabs as it
\* was and exactly one tab tagged with it, whose fields are the call's data.
TabReuse ==
  /\ [](\A k \in {CRId1, CRId2} : Cardinality(TaggedTabs(tabs, k)) <= 1)
  /\ [][\A c \in OpenCalls :
          (TaggedTabs(tabs, c[1]) # {} /\ OpenCollectionRequest(c[1], c[2])) =>
            /\ Len(tabs') = Len(tabs)
            /\ Cardinality(TaggedTabs(tabs', c[1])) = 1
            /\ \A i \in TaggedTabs(tabs', c[1]) :
                 /\ tabs'[i].name = c[2].name
                 /\ tabs'[i].url = c[2].url
                 /\ tabs'[i].method = c[2].method
                 /\ tabs'[i].headers = c[2].headers
                 /\ tabs'[i].params = c[2].params
                 /\ tabs'[i].body = c[2].body]_vars

\* a collectionRequestId was opened again, with data that differs from the tab's
TabReuseWitness ==
  /\ lastOp.name = "openCollectionRequest" /\ lastOp.found /\ lastOp.changed
  /\ \E i \in 1..Len(tabs) :
       tabs[i].collectionRequestId = Some(CRId1) /\ tabs[i].url = SavedData2.url

\* C19: updateTab on an existing tab sets isDirty to updates.isDirty when it is
\* given, whatever markDirty is, else to true when markDirty is true, else
\* leaves it; the other fields of updates are merged into the tab, the tab's
\* remaining fields and every other tab stay as they were.
UpdateTabDirtyRule ==
  [][\A id \in TabIds, u \in TabUpdates, m \in BOOLEAN :
       (HasTab(tabs, id) /\ UpdateTab(id, u, m)) =>
         /\ Len(tabs') = Len(tabs)
         /\ activeTabId' = activeTabId
         /\ \A i \in 1..Len(tabs) :
              IF tabs[i].id # id THEN tabs'[i] = tabs[i]
              ELSE /\ tabs'[i].isDirty =
                        IF "isDirty" \in DOMAIN u THEN u.isDirty
                        ELSE IF m THEN TRUE ELSE tabs[i].isDirty
                   /\ \A f \in DOMAIN u \ {"isDirty"} : tabs'[i][f] = u[f]
                   /\ \A f \in DOMAIN tabs[i] \ (DOMAIN u \cup {"isDirty"}) :
                        tabs'[i][f] = tabs[i][f]]_vars

\* updateTab changed one of two tabs: one is renamed and dirty, the other renamed
\* and clean
UpdateTabDirtyRuleWitness ==
  /\ lastOp.name = "updateTab" /\ lastOp.found /\ lastOp.changed
  /\ Len(tabs) = 2
  /\ tabs[1].name = "Untitled" /\ tabs[1].isDirty
  /\ tabs[2].name = "Untitled" /\ ~tabs[2].isDirty

(***************************************************************************)
(* Properties of the history.                                              *)
(***************************************************************************)

\* C3: no two history entries have the same dedup key.
HistoryKeysDistinct ==
  \A i, j \in 1..Len(history) :
    i # j => historyKey(history[i].request) # historyKey(history[j].request)

\* a request whose key was already in a history of two or more entries was recorded
HistoryKeysDistinctWitness ==
  lastOp.name = "addToHistory" /\ lastOp.found /\ Len(history) >= 2

\* the body addToHistory is to store for a response body
StoredBody(body) ==
  IF Len(body) > 10240
  THEN SubSeq(body, 1, 10240) \o "\n... [truncated for storage]"
  ELSE body

\* C4: recording a request whose key is already in the history leaves the length
\* as it was, puts an entry with the call's requestId, request and truncated
\* response first, and keeps the other entries in their order.
ResendReranks ==
  [][\A e \in HistoryEntries :
       LET same == {i \in 1..Len(history) :
                      historyKey(history[i].request) = historyKey(e.request)}
       IN (same # {} /\ RecordSend(e)) =>
            /\ Len(history') = Len(history)
            /\ history'[1].requestId = e.requestId
            /\ history'[1].request = e.request
            /\ history'[1].response = [e.response EXCEPT !.body = StoredBody(@)]
            /\ \E i \in same :
                 Tail(history') =
                   SubSeq(history, 1, i - 1) \o SubSeq(history, i + 1, Len(history))]_vars

\* the request recorded was the last of three entries
ResendReranksWitness ==
  lastOp.name = "addToHistory" /\ lastOp.index = 3 /\ Len(history) = 3

\* C5: the history never has more than 50 entries, and after N sends to distinct
\* urls it holds the min(N, 50) most recent ones, newest first.
HistoryCapped ==
  /\ Len(history) <= 50
  /\ Len(history) =
       IF distinctSends.sinceClear < 50 THEN distinctSends.sinceClear ELSE 50
  /\ \A i \in 1..Len(history) :
       history[i].request.url = UrlN(distinctSends.total - i + 1)

\* more than 50 distinct urls were sent
HistoryCappedWitness ==
  distinctSends.sinceClear > 50 /\ Len(history) = 50 /\ lastOp.name = "addToHistory"

\* C6: a stored body longer than 10240 is the first 10240 code units followed by
\* the marker, a shorter one is stored as it is, and the caller's Response
\* Record is not truncated.
BodyTruncation ==
  /\ [](\A i \in 1..Len(history) :
          Len(history[i].response.body) <= 10240 + Len("\n... [truncated for storage]"))
  /\ [][\A e \in HistoryEntries :
          RecordSend(e) =>
            /\ Len(e.response.body) > 10240 =>
                 history'[1].response.body =
                   SubSeq(e.response.body, 1, 10240) \o "\n... [truncated for storage]"
            /\ Len(e.response.body) <= 10240 =>
                 history'[1].response.body = e.response.body
            /\ callerResponse' = Some(e.response)]_vars

\* a body of 10241 code units was stored
BodyTruncationWitness ==
  /\ lastOp.name = "addToHistory"
  /\ callerResponse = Some(LongResponse)
  /\ Len(history[1].response.body) = 10240 + 28

(***************************************************************************)
(* Properties of the request executor.                                     *)
(***************************************************************************)

\* C10: in both modes a send whose method is not one of the 7 verbs or whose
\* url is not an absolute url ends with a validation error, and no network call
\* is ever made for it, neither to the proxy endpoint nor to the target.
ValidationShortCircuit ==
  \A i \in 1..Len(sends) :
    (sends[i].request.method \notin
       {"GET", "POST", "PUT", "PATCH", "DELETE", "HEAD", "OPTIONS"}
     \/ ~IsUrl(sends[i].request.url)) =>
      /\ sends[i].outcome = ValidationError
      /\ \A n \in 1..Len(network) : network[n].send # i

\* a send with method FOO was rejected in proxy mode and one with a url without
\* scheme in direct mode
ValidationShortCircuitWitness ==
  \E i, j \in 1..Len(sends) :
    /\ sends[i].proxy /\ sends[i].request.method = "FOO"
    /\ sends[i].request.url = UrlA
    /\ ~sends[j].proxy /\ sends[j].request.url = "a/x"
    /\ sends[j].request.method = "GET"
    /\ sends[i].outcome = ValidationError /\ sends[j].outcome = ValidationError

\* C11: in proxy mode, whenever the target answered, with any status, the proxy's
\* own reply has status 200, and the status of its envelope and of the Response
\* Record the executor builds is the target's status.
ProxyStatusPassthrough ==
  \A i \in 1..Len(sends) :
    (sends[i].proxy /\ sends[i].targetStatus # None) =>
      /\ sends[i].reply # None
      /\ sends[i].reply[1].status = 200
      /\ sends[i].reply[1].body.status = sends[i].targetStatus[1]
      /\ sends[i].outcome.kind = "response"
      /\ sends[i].outcome.response.status = sends[i].targetStatus[1]

\* two proxy-mode sends were answered 404 and 500 by their targets
ProxyStatusPassthroughWitness ==
  \E i, j \in 1..Len(sends) :
    /\ sends[i].proxy /\ sends[i].targetStatus = Some(404) /\ sends[i].pc = "done"
    /\ sends[j].proxy /\ sends[j].targetStatus = Some(500) /\ sends[j].pc = "done"

\* the outbound fetches the proxy made for its e-th request
OutboundCallsOf(e) == {n \in 1..Len(network) : network[n].send = e}

BrowserCallsOf(i) ==
  {n \in 1..Len(network) : network[n].send = i /\ network[n].from = "browser"}

\* C20: a send uses the one strategy proxyMode selects when it is issued: with
\* proxyMode true its only call from the calling context goes to the proxy
\* endpoint, with proxyMode false the calling context fetches the target and the
\* proxy endpoint is never called for it.
StrategySelection ==
  /\ [][\A r \in SendRequests :
          (Send(r) /\ ParsesAsRequest(r)) =>
            /\ Len(network') = Len(network) + 1
            /\ network'[Len(network')].from = "browser"
            /\ network'[Len(network')].to = IF proxyMode THEN "proxy" ELSE "target"
            /\ network'[Len(network')].url = IF proxyMode THEN "/api/proxy" ELSE r.url]_vars
  /\ [](\A i \in 1..Len(sends) :
          /\ Cardinality(BrowserCallsOf(i)) <= 1
          /\ \A n \in 1..Len(network) :
               network[n].send = i =>
                 IF sends[i].proxy
                 THEN network[n].from = "browser" => network[n].to = "proxy"
                 ELSE network[n].to = "target" /\ network[n].from = "browser")

\* a send in direct mode and a send in proxy mode both completed
StrategySelectionWitness ==
  \E i, j \in 1..Len(sends) :
    /\ sends[i].proxy /\ ~sends[j].proxy
    /\ sends[i].outcome.kind = "response" /\ sends[j].outcome.kind = "response"
    /\ \E n \in 1..Len(network) : network[n].send = j /\ network[n].to = "target"

(***************************************************************************)
(* Properties of the editor.                                               *)
(***************************************************************************)

\* the change A of field to value through the active tab follows the link: the
\* linked saved request, when there is one, gets the tab's new value; a tab
\* without link leaves the saved requests alone and is dirty
FollowsLink(A, field, value) ==
  LET activeTab == getActiveTab(tabs, activeTabId)
      i == findIndex(tabs, activeTab.id)
      r == LinkedRequest(tabs, activeTabId, requests)
  IN A =>
       /\ tabs'[i][field] = value
       /\ (activeTab.collectionRequestId # None /\ r # 0) =>
            /\ requests'[r].id = requests[r].id
            /\ requests'[r][field] = tabs'[i][field]
       /\ activeTab.collectionRequestId = None =>
            /\ requests' = requests
            /\ tabs'[i].isDirty

\* C17: every edit of url, method, headers, params or body through the active
\* tab reaches the saved request the tab is linked to, when that request exists;
\* an edit through a tab without link leaves the saved requests as they were and
\* the tab dirty.
EditsFollowLink ==
  [][/\ \A v \in EditedUrls : FollowsLink(HandleUrlChange(v), "url", v)
     /\ \A v \in EditedMethods : FollowsLink(HandleMethodChange(v), "method", v)
     /\ \A v \in EditedHeaders : FollowsLink(HandleHeadersChange(v), "headers", v)
     /\ \A v \in EditedParams : FollowsLink(HandleParamsChange(v), "params", v)
     /\ \A v \in EditedBodies : FollowsLink(HandleBodyChange(v), "body", v)]_vars

\* the method was changed through a tab linked to a saved request, which now has
\* the new method, while another tab is an unlinked draft
EditsFollowLinkWitness ==
  /\ lastOp.name = "handleMethodChange" /\ lastOp.found /\ lastOp.changed
  /\ \E i \in 1..Len(tabs), r \in 1..Len(requests) :
       /\ tabs[i].collectionRequestId = Some(collections[1].id \o ":" \o requests[r].id)
       /\ tabs[i].method = "POST" /\ requests[r].method = "POST"
  /\ \E i \in 1..Len(tabs) : tabs[i].collectionRequestId = None /\ tabs[i].isDirty

\* C18: after a draft is moved into collection c, a new saved request r with the
\* tab's fields is in the requests map and in c's list, the tab's
\* collectionRequestId is "c:r", and the tab is not dirty.
SavingLinksTab ==
  [][\A i \in 1..Len(tabs), c \in 1..Len(collections) :
       HandleMoveToCollection(i, c) =>
         LET r == generateId(nextGenId)
             saved == requestIndex(requests', r)
         IN /\ requestIndex(requests, r) = 0
            /\ saved # 0
            /\ requests'[saved].url = tabs[i].url
            /\ requests'[saved].method = tabs[i].method
            /\ requests'[saved].headers = tabs[i].headers
            /\ requests'[saved].params = tabs[i].params
            /\ requests'[saved].body = tabs[i].body
            /\ \E k \in 1..Len(collections'[c].requests) : collections'[c].requests[k] = r
            /\ tabs'[i].collectionRequestId = Some(collections[c].id \o ":" \o r)
            /\ ~tabs'[i].isDirty]_vars

(***************************************************************************)
(* Properties of sending from the editor.                                  *)
(***************************************************************************)

\* the tabs store and the collections store are as they were
StoresUnchanged ==
  /\ tabs' = tabs /\ activeTabId' = activeTabId
  /\ collections' = collections /\ requests' = requests /\ history' = history

\* the i-th send settles in this step
SettlesNow(i) ==
  /\ i \in 1..Len(sends') /\ sends'[i].pc = "done"
  /\ i \in 1..Len(sends) => sends[i].pc # "done"

\* C13: a send that fails, with a validation error, a network error or a proxy
\* error, leaves the tabs store and the collections store as they were, and so
\* does every step of a send before it settles; the history changes only when a
\* send settles with a Response Record.
FailedSendChangesNothing ==
  /\ [][\A i \in 1..MaxSends :
          (SettlesNow(i) /\ sends'[i].outcome.kind # "response") => StoresUnchanged]_vars
  /\ [][(HandleSendRequest \/ \E i \in 1..Len(sends) : ProxyHandles(i))
          => StoresUnchanged]_vars
  /\ [][history' # history =>
          \E i \in 1..Len(sends) : SettlesNow(i) /\ sends'[i].outcome.kind = "response"]_vars

\* a send failed with a validation error and another, through the proxy, with
\* the proxy's error, after the url was edited; the history is empty
FailedSendChangesNothingWitness ==
  /\ lastOp.name = "sendFailed"
  /\ \E i, j \in 1..Len(sends) :
       /\ sends[i].outcome = ValidationError
       /\ sends[j].proxy /\ sends[j].outcome.kind = "error"
       /\ sends[j].reply # None /\ sends[j].reply[1].status = 500
  /\ history = <<>>
  /\ tabs[1].url = UrlA

\* C14: when the target answers a send with a status of 400 or more, in either
\* mode, the send yields a Response Record with that status, not an error, and
\* the history gets an entry for the tab's request with that status.
TargetErrorIsNotFailure ==
  [][\A i \in 1..Len(sends), st \in AnsweredStatuses :
       (st >= 400 /\ TargetResponds(i, st)) =>
         /\ sends'[i].outcome.kind = "response"
         /\ sends'[i].outcome.response.status = st
         /\ Len(history') >= 1
         /\ history'[1].response.status = st
         /\ history'[1].requestId = handlers[i].tab.id
         /\ history'[1].request.url = handlers[i].tab.url]_vars

\* a proxy-mode send and a direct-mode send were both answered with an error status
TargetErrorIsNotFailureWitness ==
  /\ lastOp.name = "sendSucceeded"
  /\ \E i, j \in 1..Len(sends) :
       /\ sends[i].proxy /\ sends[i].targetStatus = Some(404)
       /\ ~sends[j].proxy /\ sends[j].targetStatus = Some(404)
       /\ sends[i].outcome.kind = "response" /\ sends[j].outcome.kind = "response"
  /\ Len(history) >= 1 /\ history[1].response.status >= 400

\* the handlers whose send settled with a Response Record for the history key of a
SettledWithKey(a) ==
  {b \in 1..Len(handlers) :
     /\ handlers[b].pc = "done" /\ sends[b].outcome.kind = "response"
     /\ historyKey(SentEntry(handlers[b].tab, <<>>).request) =
          historyKey(SentEntry(handlers[a].tab, <<>>).request)}

\* C15: sends overlap freely, and among the sends with one history key that
\* settled with a Response Record, the one that settled last is the one whose
\* response the single history entry with that key holds.
LastResolvedWins ==
  \A a \in 1..Len(handlers) :
    (a \in SettledWithKey(a)
     /\ \A b \in SettledWithKey(a) : handlers[b].order <= handlers[a].order) =>
      LET key == historyKey(SentEntry(handlers[a].tab, <<>>).request)
          entries == {n \in 1..Len(history) : historyKey(history[n].request) = key}
      IN /\ Cardinality(entries) = 1
         /\ \A n \in entries :
              history[n].response =
                [sends[a].outcome.response EXCEPT !.body = StoredBody(@)]

\* the second of two sends with one key settled before the first, which was
\* issued first and is the one the history entry holds
LastResolvedWinsWitness ==
  /\ Len(handlers) = 2 /\ Len(history) = 1
  /\ handlers[1].tab.url = handlers[2].tab.url
  /\ handlers[1].order = 2 /\ handlers[2].order = 1
  /\ sends[1].targetStatus = Some(404) /\ sends[2].targetStatus = Some(200)
  /\ history[1].response.status = 404

\* C16: after a send issued from a tab succeeds, the tab's response is the
\* Response Record returned and the tab is not dirty.
SuccessfulSendWritesTab ==
  [][\A i \in 1..Len(sends), st \in AnsweredStatuses :
       TargetResponds(i, st) =>
         LET k == findIndex(tabs', handlers[i].tab.id)
         IN /\ k # 0
            /\ tabs'[k].response = Some(sends'[i].outcome.response)
            /\ ~tabs'[k].isDirty]_vars

(***************************************************************************)
(* Properties of failing sends.                                            *)
(***************************************************************************)

\* C21: in proxy mode, a reply of the proxy endpoint with a status outside
\* 200..299 makes the executor throw, with no Response Record; the message is
\* the error string of the reply's body when it has one, and the generic
\* "Unknown error" when the body is not JSON.
ProxyFailureRaises ==
  \A i \in 1..Len(sends) :
    (sends[i].proxy /\ sends[i].reply # None /\ ~Ok(sends[i].reply[1])) =>
      LET reply == sends[i].reply[1]
      IN /\ sends[i].pc = "done"
         /\ sends[i].outcome.kind = "error"
         /\ "response" \notin DOMAIN sends[i].outcome
         /\ ("error" \in DOMAIN reply.body /\ reply.body.error # "") =>
              sends[i].outcome.message = reply.body.error
         /\ Unparsable(reply) => sends[i].outcome.message = "Unknown error"

\* one proxy-mode send failed with the handler's 500 and its message, another
\* with a reply that is not JSON
ProxyFailureRaisesWitness ==
  \E i, j \in 1..Len(sends) :
    /\ sends[i].proxy /\ sends[i].reply = Some(ErrorReply("fetch failed"))
    /\ sends[i].outcome = ThrownError("fetch failed")
    /\ sends[j].proxy /\ sends[j].reply # None /\ Unparsable(sends[j].reply[1])
    /\ sends[j].outcome = ThrownError("Unknown error")

\* C22: in direct mode, a fetch of the target that throws makes the executor
\* throw one error with the message of the fetch's error; the send has no
\* Response Record, and no reply of the proxy.
DirectFailureRaises ==
  [][\A i \in 1..Len(sends), m \in FailureMessages :
       (~sends[i].proxy /\ TargetThrows(i, m)) =>
         /\ sends'[i].pc = "done"
         /\ sends'[i].outcome = [kind |-> "error", message |-> m]
         /\ sends'[i].reply = None /\ sends'[i].targetStatus = None
         /\ \A j \in 1..Len(sends) : j # i => sends'[j] = sends[j]
         /\ network' = network]_vars

\* a direct send failed with the browser's message
DirectFailureRaisesWitness ==
  \E i \in 1..Len(sends) :
    /\ ~sends[i].proxy /\ sends[i].pc = "done"
    /\ sends[i].outcome = ThrownError("Failed to fetch")
    /\ \E n \in 1..Len(network) : network[n].send = i /\ network[n].to = "target"

(***************************************************************************)
(* Properties of persistence.                                              *)
(***************************************************************************)

\* C23: after the tabs store is rehydrated from a stored snapshot with at least
\* one tab, activeTabId is the id of the snapshot's first tab when the stored
\* activeTabId is null or names no tab of the snapshot, and the stored
\* activeTabId otherwise; the tabs are the snapshot's tabs.
RehydrationRepairsActive ==
  [][\A stored \in StoredSnapshots :
       (Len(stored.tabs) > 0 /\ Rehydrate(stored)) =>
         /\ tabs' = stored.tabs
         /\ activeTabId' = IF stored.activeTabId # NullId
                               /\ HasTab(stored.tabs, stored.activeTabId)
                            THEN stored.activeTabId
                            ELSE stored.tabs[1].id
         /\ HasTab(tabs', activeTabId')]_vars

\* two tabs were rehydrated from a snapshot whose activeTabId named neither, and
\* the first is active
RehydrationRepairsActiveWitness ==
  /\ lastOp.name = "rehydrate" /\ ~lastOp.found
  /\ Len(tabs) = 2 /\ activeTabId = tabs[1].id

DeleteCollectionKeepsRequests ==
  [][\A c \in 1..Len(collections) :
       HandleDeleteCollection(c) =>
         /\ collections' = SelectSeq(collections, LAMBDA x : x.id # collections[c].id)
         /\ Len(collections') = Len(collections) - 1
         /\ requests' = requests
         /\ \A k \in 1..Len(collections[c].requests) :
              getRequest(requests', collections[c].requests[k])
                = getRequest(requests, collections[c].requests[k])]_vars

\* a collection that listed a request was deleted, and the request is still in
\* the map
DeleteCollectionKeepsRequestsWitness ==
  /\ lastOp.name = "deleteCollection"
  /\ Len(requests) >= 1
  /\ \A c \in 1..Len(collections) : collections[c].requests = <<>>

\* the number of times id is in the requests lists of the collections cs
Owners(cs, id) ==
  Cardinality({<<c, k>> \in (1..Len(cs)) \X (1..MaxGenIds + 1) :
                 k <= Len(cs[c].requests) /\ cs[c].requests[k] = id})

\* C26: saveRequest on a collection of the list gives an id no request had,
\* stores the request under it, and appends the id once to that collection's
\* list and to no other list: the request is listed once in all collections.
SaveRequestOwnership ==
  [][\A c \in 1..Len(collections), name \in RequestNames :
       HandleAddRequestToCollection(c, name) =>
         LET id == saveRequest(collections, requests, collections[c].id,
                               NewRequest(name), generateId(nextGenId)).id
         IN /\ getRequest(requests, id) = None
            /\ Owners(collections, id) = 0
            /\ getRequest(requests', id) # None
            /\ getRequest(requests', id)[1].name = name
            /\ Len(requests') = Len(requests) + 1
            /\ collections'[c].requests = Append(collections[c].requests, id)
            /\ \A d \in 1..Len(collections) :
                 d # c => collections'[d] = collections[d]
            /\ Owners(collections', id) = 1]_vars

\* a request was added to the second of two collections
SaveRequestOwnershipWitness ==
  /\ lastOp.name = "handleAddRequestToCollection"
  /\ Len(collections) = 2 /\ Len(requests) = 1
  /\ collections[1].requests = <<>>
  /\ collections[2].requests = <<requests[1].id>>

(***************************************************************************)
(* Properties of the query parameters.                                     *)
(***************************************************************************)

\* the name/value pairs of the query of url, as new URL(url).searchParams lists them
PairsOf(url) == URLSearchParams(Search(URL(url)))

PairSet(pairs) == {pairs[i] : i \in 1..Len(pairs)}

\* the query of url begins with "?" or has a pair with an empty name
DropsPairs(url) ==
  \/ URL(url).query # None /\ StripQuestion(URL(url).query[1]) # URL(url).query[1]
  \/ \E i \in 1..Len(PairsOf(url)) : PairsOf(url)[i][1] = ""

BuildFiltersParams ==
  query.pc = "built" =>
    IF IsUrl(query.url)
    THEN LET kept == SelectSeq(query.params, LAMBDA param : param.enabled /\ param.key # "")
         IN /\ PairsOf(query.result) = [i \in 1..Len(kept) |-> <<kept[i].key, kept[i].value>>]
            /\ kept = <<>> => URL(query.result).query = None
            /\ URL(query.result).origin = URL(query.url).origin
            /\ URL(query.result).pathname = URL(query.url).pathname
            /\ URL(query.result).hash = URL(query.url).hash
    ELSE query.result = query.url

\* a url with a query was built from a row with an empty key and a row with a
\* key: the result has the second row only, and not the pair the url had
BuildFiltersParamsWitness ==
  /\ query.pc = "built" /\ query.url = "http://a/x?a=a"
  /\ query.params = <<[key |-> "", value |-> "=", enabled |-> TRUE],
                      [key |-> "k", value |-> "=", enabled |-> TRUE]>>
  /\ query.result = "http://a/x?k=%3D"

(***************************************************************************)
(* Properties of closing tabs.                                             *)
(***************************************************************************)

\* the tab that issued the send of handler i is no longer in the tab list
IssuerClosed(i) == ~HasTab(tabs, handlers[i].tab.id)

\* C29: removeTab leaves the sends in flight as they are; a send whose tab was
\* closed while it was in flight still settles, and when it succeeds its entry,
\* with the closed tab's id as requestId, is put first in the history.
ClosingDoesNotCancel ==
  /\ [][\A i \in 1..Len(handlers) : CloseIssuer(i) =>
           /\ sends' = sends /\ handlers' = handlers /\ network' = network
           /\ ~HasTab(tabs', handlers[i].tab.id)]_vars
  /\ [][\A i \in 1..Len(sends) :
           (IssuerClosed(i) /\ TargetResponds(i, 200)) =>
             /\ sends'[i].pc = "done"
             /\ sends'[i].outcome.kind = "response"
             /\ handlers'[i].pc = "done"
             /\ Len(history') >= 1
             /\ history'[1].requestId = handlers[i].tab.id
             /\ history'[1].request.url = handlers[i].tab.url
             /\ history'[1].response.status = 200]_vars
  /\ [](\A i \in 1..Len(sends) :
          (handlers[i].pc = "awaiting" /\ IssuerClosed(i)) =>
            sends[i].pc \in {"proxy", "target"})

\* a send succeeded after its tab was closed: its entry is first in the history
\* and names a tab that is not in the tab list, and no tab left has a url
ClosingDoesNotCancelWitness ==
  /\ lastOp.name = "sendSucceeded"
  /\ Len(history) >= 1 /\ ~HasTab(tabs, history[1].requestId)
  /\ \E i \in 1..Len(handlers) :
       /\ handlers[i].pc = "done" /\ handlers[i].tab.id = history[1].requestId
       /\ sends[i].outcome.kind = "response"
  /\ \A k \in 1..Len(tabs) : tabs[k].url = ""

\* C30: with two or more tabs, removeTab of a tab of the list removes that tab
\* and leaves the others as they were, in their order; when the tab was active
\* the tab before it becomes active, or the tab after it when it was the first;
\* when it was not active, activeTabId stays.
RemoveTabActivation ==
  [][\A id \in TabIds :
       (Len(tabs) >= 2 /\ HasTab(tabs, id) /\ RemoveTab(id)) =>
         LET i == findIndex(tabs, id)
         IN /\ tabs' = [k \in 1..(Len(tabs) - 1) |->
                          IF k < i THEN tabs[k] ELSE tabs[k + 1]]
            /\ activeTabId' = IF activeTabId # id THEN activeTabId
                               ELSE IF i > 1 THEN tabs[i - 1].id
                               ELSE tabs[2].id
            /\ activeTabId = id => activeTabId' = tabs'[IF i > 1 THEN i - 1 ELSE 1].id]_vars

\* the third of three tabs was active and removed: the second is active
RemoveTabActivationWitness ==
  /\ lastOp.name = "removeTab" /\ lastOp.found /\ lastOp.changed
  /\ Len(tabs) = 2
  /\ activeTabId = tabs[2].id
  /\ tabs[1].id < tabs[2].id /\ tabs[2].id + 1 < nextTabId

(***************************************************************************)
(* Properties of opening a saved request.                                  *)
(***************************************************************************)

\* C31: after openCollectionRequest(k, data) the first tab tagged k is the
\* active tab, is not dirty and has collectionRequestId k, whatever the tab
\* was before and whatever isDirty and collectionRequestId data carries; when
\* no tab was tagged k, one tab is appended and the tabs before it are as they were.
OpenYieldsCleanLinkedTab ==
  [][\A k \in {CRId1, CRId2}, data \in OpenData :
       OpenCollectionRequest(k, data) =>
         LET before == findByCollectionRequest(tabs, k)
             after == findByCollectionRequest(tabs', k)
         IN /\ after # 0
            /\ activeTabId' = tabs'[after].id
            /\ tabs'[after].isDirty = FALSE
            /\ tabs'[after].collectionRequestId = Some(k)
            /\ \A f \in DOMAIN data \ {"isDirty", "collectionRequestId"} :
                 tabs'[after][f] = data[f]
            /\ before = 0 =>
                 /\ Len(tabs') = Len(tabs) + 1
                 /\ after = Len(tabs')
                 /\ SubSeq(tabs', 1, Len(tabs)) = tabs
            /\ before # 0 =>
                 /\ after = before
                 /\ Len(tabs') = Len(tabs)
                 /\ \A i \in 1..Len(tabs) : i # before => tabs'[i] = tabs[i]]_vars

\* a dirty tab tagged c1:r1 was reopened with data that is dirty and names
\* c1:r2: the tab is active, clean and still tagged c1:r1
OpenYieldsCleanLinkedTabWitness ==
  /\ lastOp.name = "openCollectionRequest" /\ lastOp.found /\ lastOp.changed
  /\ Len(tabs) = 2
  /\ tabs[1].collectionRequestId = Some(CRId1) /\ tabs[1].isDirty = FALSE
  /\ tabs[1].name = "dirty" /\ activeTabId = tabs[1].id
  /\ tabs[2].collectionRequestId = Some(CRId2) /\ tabs[2].isDirty = TRUE

\* the tabs of the list keep their isDirty flag in the step
DirtyFlagsKept ==
  /\ Len(tabs') >= Len(tabs)
  /\ \A i \in 1..Len(tabs) :
       tabs'[i].id = tabs[i].id /\ tabs'[i].isDirty = tabs[i].isDirty

\* C32: renameTab, setActiveTab, setTabResponse and addTab leave the isDirty
\* flag of every tab of the list as it was, and renameTab changes only the
\* name of the tab it names.
MetadataKeepsDirty ==
  [][/\ \A id \in TabIds, n \in TabNames :
          RenameTab(id, n) =>
            /\ DirtyFlagsKept
            /\ activeTabId' = activeTabId
            /\ Len(tabs') = Len(tabs)
            /\ \A i \in 1..Len(tabs) :
                 tabs'[i] = IF tabs[i].id = id THEN [tabs[i] EXCEPT !.name = n]
                            ELSE tabs[i]
     /\ \A id \in TabIds : SetActiveTab(id) => DirtyFlagsKept
     /\ \A id \in TabIds : SetTabResponse(id, Some(SomeResponse)) => DirtyFlagsKept
     /\ AddTab => DirtyFlagsKept]_vars

\* a clean tab was renamed while the other tab is dirty: the renamed tab is
\* still clean and the other one still dirty
MetadataKeepsDirtyWitness ==
  /\ lastOp.name = "renameTab" /\ lastOp.found /\ lastOp.changed
  /\ Len(tabs) = 2
  /\ tabs[1].name = "Untitled" /\ tabs[1].isDirty = FALSE
  /\ tabs[2].name = "New Request" /\ tabs[2].isDirty = TRUE

(***************************************************************************)
(* Properties of the request sent to the target.                           *)
(***************************************************************************)

\* C33: a fetch of the target, made by the browser in direct mode or by the
\* proxy, carries a body only when its method is POST, PUT or PATCH; for GET,
\* DELETE, HEAD and OPTIONS it carries none, also when the caller gave one.
BodyOnlyForBodyMethods ==
  \A j \in 1..Len(network) :
    network[j].to = "target" =>
      /\ network[j].method = sends[network[j].send].request.method
      /\ network[j].body # None => network[j].method \in {"POST", "PUT", "PATCH"}
      /\ network[j].method \in {"GET", "DELETE", "HEAD", "OPTIONS"} =>
           network[j].body = None

\* a DELETE with a body went through the proxy without it, and a PUT with a
\* body went directly to the target with it
BodyOnlyForBodyMethodsWitness ==
  /\ Len(sends) = 2 /\ Len(network) = 3
  /\ sends[1].proxy /\ sends[1].request.method = "DELETE"
  /\ sends[1].request.body = Some("{}")
  /\ network[2].from = "proxy" /\ network[2].to = "target"
  /\ network[2].method = "DELETE" /\ network[2].body = None
  /\ ~sends[2].proxy /\ sends[2].request.method = "PUT"
  /\ network[3].from = "browser" /\ network[3].to = "target"
  /\ network[3].method = "PUT" /\ network[3].body = Some("{}")

(***************************************************************************)
(* Properties of the synchronization of params with the url.               *)
(***************************************************************************)

\* the params of the active tab
ActiveParams == getActiveTab(tabs, activeTabId).params

\* the keys of the query of the url the active tab would send
EffectiveKeys ==
  LET sent == parseUrlParams(SentUrl(getActiveTab(tabs, activeTabId)))
  IN {sent[i].key : i \in 1..Len(sent)}

\* the keys of the query of url
QueryKeys(url) ==
  LET parsed == parseUrlParams(url) IN {parsed[i].key : i \in 1..Len(parsed)}

\* the enabled params of a list, and its disabled params with a key not in keys
EnabledOf(params) == SelectSeq(params, LAMBDA q : q.enabled)
DisabledOf(params, keys) == SelectSeq(params, LAMBDA q : ~q.enabled /\ q.key \notin keys)

\* after the panel derived the params again, no disabled param's key is in the
\* url the tab sends
NoDisabledKeySent ==
  (lastOp.name = "typeUrl" /\ lastOp.found) =>
    \A j \in 1..Len(ActiveParams) :
      ~ActiveParams[j].enabled => ActiveParams[j].key \notin EffectiveKeys

\* C34 as stated: when typing a url makes the panel derive the params again,
\* every param that was disabled before is in the list afterwards, disabled,
\* and its key is not in the url the tab sends.
DisabledParamsRetained ==
  /\ [][\A url \in TypedUrls :
          (TypeUrl(url) /\ lastOp'.found) =>
            \A i \in 1..Len(ActiveParams) :
              ~ActiveParams[i].enabled =>
                \E j \in 1..Len(ActiveParams') : ActiveParams'[j] = ActiveParams[i]]_vars
  /\ [](NoDisabledKeySent)

\* C34: when typing a url makes the panel derive the params again, the
\* enabled params afterwards are the ones parsed from the url; the disabled
\* params afterwards are, in their order, the params that were disabled
\* before and whose key is not a key of the url's query (a disabled param
\* whose key is in the url is dropped); no disabled param's key is in the
\* url the tab sends.
DisabledParamsRetainedUnlessInUrl ==
  /\ [][\A url \in TypedUrls :
          (TypeUrl(url) /\ lastOp'.found) =>
            /\ EnabledOf(ActiveParams') = parseUrlParams(url)
            /\ DisabledOf(ActiveParams', {}) = DisabledOf(ActiveParams, QueryKeys(url))]_vars
  /\ [](NoDisabledKeySent)

\* a=1 was disabled and b=1 was typed into the url: the list has b=1 and,
\* after it, a=1, still disabled, and the url the tab sends has b only
DisabledParamsRetainedUnlessInUrlWitness ==
  /\ lastOp.name = "typeUrl" /\ lastOp.found
  /\ ActiveParams = <<[key |-> "b", value |-> "1", enabled |-> TRUE],
                      [key |-> "a", value |-> "1", enabled |-> FALSE]>>
  /\ SentUrl(getActiveTab(tabs, activeTabId)) = "http://a/x?b=1"

(***************************************************************************)
(* Properties of the history key.                                          *)
(***************************************************************************)

\* both requests of the pair were recorded
BothRecorded ==
  /\ query.pc = "pair" /\ lastOp.name = "addToHistory"
  /\ Len(history) = 2 \/ lastOp.found

\* the number of enabled params of the request with a key, that key and value
PairCount(request, key, value) ==
  Cardinality({i \in 1..Len(request.params) :
                 /\ request.params[i].enabled /\ request.params[i].key # ""
                 /\ request.params[i].key = key /\ request.params[i].value = value})

\* the requests have the same multiset of enabled key/value pairs
SamePairs(r1, r2) ==
  \A row \in KeyRows :
    PairCount(r1, row.key, row.value) = PairCount(r2, row.key, row.value)

\* C35: two requests with the same url and the same multiset of enabled
\* key/value pairs have the same history key, in any order of the params and
\* with any disabled params, and recording both leaves one history entry.
SamePairsSameKey ==
  (BothRecorded /\ query.first.url = query.second.url
     /\ SamePairs(query.first, query.second)) =>
    /\ buildHistoryKey(query.first) = buildHistoryKey(query.second)
    /\ Len(history) = 1

\* b, a and a disabled c were recorded, and then a, b: one entry is left
SamePairsSameKeyWitness ==
  /\ BothRecorded
  /\ query.first.params
       = <<Param("b", "1", TRUE), Param("a", "1", TRUE), Param("c", "1", FALSE)>>
  /\ query.second.params = <<Param("a", "1", TRUE), Param("b", "1", TRUE)>>
  /\ query.second.url = UrlA /\ query.second.method = "GET"
  /\ Len(history) = 1 /\ history[1].request = query.second

\* C38: two sends with the same url and the same enabled params, the second
\* with another method, other headers and another body, leave one history
\* entry, which has the second send's request and response.
KeyIgnoresMethod ==
  (BothRecorded /\ query.first.url = query.second.url
     /\ SamePairs(query.first, query.second)
     /\ query.first.method # query.second.method) =>
    /\ Len(history) = 1
    /\ history[1].request = query.second
    /\ history[1].requestId = query.second.id
    /\ history[1].response = truncateResponseBody(LongResponse)

\* a GET of http://a/x?a=1 was recorded and then a POST of it with headers and
\* a body: the one entry has the POST and its 404 response
KeyIgnoresMethodWitness ==
  /\ BothRecorded
  /\ query.first.params = <<Param("a", "1", TRUE)>>
  /\ query.second.params = <<Param("a", "1", TRUE)>>
  /\ query.first.method = "GET" /\ query.first.headers = <<>>
  /\ Len(history) = 1
  /\ history[1].request.method = "POST" /\ history[1].request.headers # <<>>
  /\ history[1].request.body # None /\ history[1].response.status = 404

(***************************************************************************)
(* Properties of sending with credentials.                                 *)
(***************************************************************************)

\* header is one of the headers of the list
HasHeader(headers, header) == \E j \in 1..Len(headers) : headers[j] = header

\* C36: handleSendRequest puts the header derived from the tab's auth (basic,
\* bearer with a token, api-key added to the header) into the request it sends
\* and nowhere else: the send and its settling leave the tabs and the saved
\* requests as they were, and the history entry recorded for the send has the
\* tab's header list, which does not have the derived header.
AuthExpandedAtSendOnly ==
  /\ [][HandleSendRequest =>
          LET tab == getActiveTab(tabs, activeTabId)
              sent == sends'[Len(sends) + 1].request.headers
          IN /\ tabs' = tabs /\ requests' = requests
             /\ \A j \in 1..Len(authHeaders(tab.auth)) :
                  /\ HasHeader(sent, authHeaders(tab.auth)[j])
                  /\ ~HasHeader(tab.headers, authHeaders(tab.auth)[j])
             /\ \A j \in 1..Len(tab.headers) :
                  tab.headers[j].key # "Authorization" => HasHeader(sent, tab.headers[j])
             /\ tab.auth.type \in {"basic", "bearer"} /\ authHeaders(tab.auth) # <<>> =>
                  \E j \in 1..Len(sent) :
                    /\ sent[j].key = "Authorization"
                    /\ sent[j].value \in {"Basic dTpw", "Bearer t"}]_vars
  /\ [][\A i \in 1..Len(sends) :
          TargetResponds(i, 200) =>
            /\ tabs' = tabs /\ requests' = requests
            /\ history'[1].requestId = handlers[i].tab.id
            /\ history'[1].request.headers = handlers[i].tab.headers
            /\ \A j \in 1..Len(authHeaders(handlers[i].tab.auth)) :
                 ~HasHeader(history'[1].request.headers,
                            authHeaders(handlers[i].tab.auth)[j])]_vars

\* a linked tab with an Authorization header of its own and basic auth was
\* sent: the request has the credential, and the tab, the saved request and the
\* history entry have the tab's own header
AuthExpandedAtSendOnlyWitness ==
  /\ lastOp.name = "sendSucceeded" /\ Len(sends) = 1
  /\ sends[1].request.headers = <<[key |-> "Authorization", value |-> "Basic dTpw"]>>
  /\ Len(tabs) = 2 /\ activeTabId = tabs[2].id
  /\ tabs[2].collectionRequestId # None /\ tabs[2].auth.type = "basic"
  /\ tabs[2].headers = <<[key |-> "Authorization", value |-> "mine"]>>
  /\ Len(requests) = 1 /\ requests[1].headers = tabs[2].headers
  /\ Len(history) = 1 /\ history[1].request.headers = tabs[2].headers

(***************************************************************************)
(* Properties of the headers of the proxy's outbound request.              *)
(***************************************************************************)

\* the values the headers of the list have under name, whatever its letter case
ValuesOf(headers, name) ==
  LET under == SelectSeq(headers, LAMBDA h : toLowerCase(h.key) = name)
  IN [i \in 1..Len(under) |-> under[i].value]

\* C37: the proxy's outbound request has Content-Type application/json when
\* the caller gave no Content-Type header, and the caller's value, and nothing
\* else, when the caller gave one, in any letter case of the name.
ContentTypeDefaultAndOverride ==
  \A n \in 1..Len(network) :
    (network[n].from = "proxy" /\ network[n].to = "target") =>
      LET given == ValuesOf(exchanges[network[n].send].json.headers, "content-type")
          sent == ValuesOf(network[n].headers, "content-type")
      IN sent = IF given = <<>> THEN <<"application/json">> ELSE given

(***************************************************************************)
(* Properties of the lists of the collections and the requests map.        *)
(***************************************************************************)

\* the places, a collection and an index of its list, where id is listed
ListedAt(cs, id) ==
  {p \in (1..Len(cs)) \X (1..MaxGenIds) :
     p[2] <= Len(cs[p[1]].requests) /\ cs[p[1]].requests[p[2]] = id}

ListedRequestsExist ==
  \A id \in GeneratedIds :
    /\ Cardinality(ListedAt(collections, id)) <= 1
    /\ ListedAt(collections, id) # {} => \E i \in 1..Len(requests) : requests[i].id = id

\* C39: after any sequence of addCollection, deleteCollection, saveRequest,
\* updateRequest and deleteRequest, each id a collection lists is a key of
\* the requests map and is listed once, in one collection; deleteRequest(id)
\* leaves id neither in the map nor in a list.
ListedRequestsAreSaved ==
  /\ [](ListedRequestsExist)
  /\ [][\A id \in GeneratedIds :
          HandleDeleteRequest(id) =>
            /\ \A i \in 1..Len(requests') : requests'[i].id # id
            /\ \A c \in 1..Len(collections') :
                 \A k \in 1..Len(collections'[c].requests) :
                   collections'[c].requests[k] # id]_vars

\* a request listed in a collection was deleted while another, which was
\* updated, stays listed and saved
ListedRequestsAreSavedWitness ==
  /\ lastOp.name = "deleteRequest"
  /\ Len(requests) = 1
  /\ requests[1].url = UrlB
  /\ ListedAt(collections, requests[1].id) # {}
  /\ nextGenId = MaxGenIds + 1

(***************************************************************************)
(* Properties of the link of a tab to a saved request.                     *)
(***************************************************************************)

\* C40: every tab with collectionRequestId "c:r" refers to a request r of the
\* requests map that the collection c, which exists, lists, in every state
\* reached by opening listed requests, deleting requests and collections,
\* closing tabs and editing tabs.
LinkageValid ==
  \A t \in 1..Len(tabs) :
    (tabs[t].collectionRequestId # None /\ tabs[t].collectionRequestId[1] # "") =>
      LET parts == Split(tabs[t].collectionRequestId[1], ":")
      IN /\ Len(parts) = 2
         /\ requestIndex(requests, parts[2]) # 0
         /\ \E c \in 1..Len(collections) :
              /\ collections[c].id = parts[1]
              /\ \E k \in 1..Len(collections[c].requests) :
                   collections[c].requests[k] = parts[2]

====
